---------------------------- MODULE Spec2Model ----------------------------
(***************************************************************************)
(* Mech-AI: the chat pipeline of src/src.  A classified request (intent,   *)
(* data, search_params) enters ChatService.handle_intent, which dispatches *)
(* to ServiceManagementService (the reconciliation service), which drives  *)
(* the Client, Car and ServiceRecord repositories over one store session.  *)
(*                                                                         *)
(* Values.  A Python str is a sequence of one-character strings, so that   *)
(* lower-casing and LIKE matching are computed character by character.     *)
(* Python None is the one-element sequence None, whose element is no       *)
(* character.  An int (car_year) is a one-element sequence holding its     *)
(* decimal text.  A dict is a function from its keys.                      *)
(***************************************************************************)
EXTENDS Integers, Sequences, FiniteSets, TLC

None == <<"None">>

\* Python truthiness of an Optional[str]: None and "" are falsy.
Truthy(v) == v # None /\ v # <<>>

\* dict.get(key): the value, or None when the key is absent.
Get(d, k) == IF k \in DOMAIN d THEN d[k] ELSE None

EmptyDict == [k \in {} |-> None]

(***************************************************************************)
(* ilike.  SQLAlchemy renders col.ilike(p) as lower(col) LIKE lower(p):    *)
(* both sides are lower-cased, then matched as an SQL LIKE pattern, where  *)
(* "%" stands for any run of characters and "_" for any one character.     *)
(* A NULL column never matches.                                            *)
(***************************************************************************)
LowerChar(c) ==
    CASE c = "A" -> "a" [] c = "B" -> "b" [] c = "G" -> "g" [] c = "L" -> "l"
      [] c = "N" -> "n" [] c = "O" -> "o" [] c = "P" -> "p" [] c = "U" -> "u"
      [] c = "V" -> "v" [] c = "W" -> "w" [] c = "I" -> "i"
      [] OTHER -> c

Lower(s) == [i \in 1..Len(s) |-> LowerChar(s[i])]

Drop(s, n) == SubSeq(s, n + 1, Len(s))

RECURSIVE Like(_, _)
Like(p, s) ==
    IF p = <<>> THEN s = <<>>
    ELSE IF Head(p) = "%"
         THEN \E k \in 0..Len(s) : Like(Tail(p), Drop(s, k))
         ELSE /\ s # <<>>
              /\ Head(p) = "_" \/ Head(p) = Head(s)
              /\ Like(Tail(p), Tail(s))

ILike(col, p) == col # None /\ Like(Lower(p), Lower(col))

\* f"%{x}%"
Contains(x) == <<"%">> \o x \o <<"%">>

(***************************************************************************)
(* datetime.strptime(s, '%Y-%m-%d').date().  The format compiles to the    *)
(* regex  (\d\d\d\d)-(1[0-2]|0[1-9]|[1-9])-(3[01]|[12]\d|0[1-9]|[1-9]| [1-9]) *)
(* which must match the whole string; the three numbers must then form a   *)
(* calendar date.  Every other string raises ValueError.  A date is the    *)
(* tuple <<year, month, day>>.                                             *)
(***************************************************************************)
Digits == {"0", "1", "2", "3", "4", "5", "6", "7", "8", "9"}

DigitVal(c) ==
    CASE c = "0" -> 0 [] c = "1" -> 1 [] c = "2" -> 2 [] c = "3" -> 3
      [] c = "4" -> 4 [] c = "5" -> 5 [] c = "6" -> 6 [] c = "7" -> 7
      [] c = "8" -> 8 [] c = "9" -> 9

RECURSIVE ParseInt(_)
ParseInt(ds) ==
    IF ds = <<>> THEN 0
    ELSE 10 * ParseInt(SubSeq(ds, 1, Len(ds) - 1)) + DigitVal(ds[Len(ds)])

AllDigits(ds) == \A i \in 1..Len(ds) : ds[i] \in Digits

\* %m : 1[0-2] | 0[1-9] | [1-9]
MonthToken(t) ==
    \/ Len(t) = 2 /\ t[1] = "1" /\ t[2] \in {"0", "1", "2"}
    \/ Len(t) = 2 /\ t[1] = "0" /\ t[2] \in Digits \ {"0"}
    \/ Len(t) = 1 /\ t[1] \in Digits \ {"0"}

\* %d : 3[01] | [12]\d | 0[1-9] | [1-9] | " "[1-9]
DayToken(t) ==
    \/ Len(t) = 2 /\ t[1] = "3" /\ t[2] \in {"0", "1"}
    \/ Len(t) = 2 /\ t[1] \in {"1", "2"} /\ t[2] \in Digits
    \/ Len(t) = 2 /\ t[1] \in {"0", " "} /\ t[2] \in Digits \ {"0"}
    \/ Len(t) = 1 /\ t[1] \in Digits \ {"0"}

IsLeap(y) == (y % 4 = 0 /\ y % 100 # 0) \/ y % 400 = 0

DaysInMonth(y, m) ==
    IF m = 2 THEN (IF IsLeap(y) THEN 29 ELSE 28)
    ELSE IF m \in {4, 6, 9, 11} THEN 30 ELSE 31

\* The places where the month token may end: the "-" that follows it.
MonthEnds(s) == {k \in {7, 8} : k <= Len(s) /\ s[k] = "-"}

\* The (month token, day token) splits of s the regex accepts.
YmdSplits(s) ==
    IF Len(s) >= 5 /\ AllDigits(SubSeq(s, 1, 4)) /\ s[5] = "-"
    THEN {k \in MonthEnds(s) : /\ MonthToken(SubSeq(s, 6, k - 1))
                               /\ DayToken(Drop(s, k))}
    ELSE {}

DayDigits(t) == IF t[1] = " " THEN Tail(t) ELSE t

\* [ok |-> TRUE, date |-> d], or [ok |-> FALSE] for ValueError.
Strptime(s) ==
    IF YmdSplits(s) = {} THEN [ok |-> FALSE, date |-> <<>>]
    ELSE LET k == CHOOSE j \in YmdSplits(s) : TRUE
             y == ParseInt(SubSeq(s, 1, 4))
             m == ParseInt(SubSeq(s, 6, k - 1))
             d == ParseInt(DayDigits(Drop(s, k)))
         IN  IF y >= 1 /\ d <= DaysInMonth(y, m)
             THEN [ok |-> TRUE, date |-> <<y, m, d>>]
             ELSE [ok |-> FALSE, date |-> <<>>]

(***************************************************************************)
(* The store.  A session is the request's view of the three tables: the    *)
(* committed rows plus the rows it has flushed, with the trace of the      *)
(* AsyncSession calls it made.  clock numbers the inserts: it is the       *)
(* created_at default, datetime.now() at insert time.  committed is the     *)
(* store as of the session's last commit: what remains when it closes.     *)
(***************************************************************************)
EmptyStore == [clients |-> {}, cars |-> {}, records |-> {}]

SetMax(S) == CHOOSE x \in S : \A y \in S : y <= x

\* INTEGER PRIMARY KEY: one more than the largest id of the table.
NextId(rows) == IF rows = {} THEN 1 ELSE SetMax({r.id : r \in rows}) + 1

OpenSession(store, now) ==
    [clients |-> store.clients, cars |-> store.cars, records |-> store.records,
     clock |-> now, calls |-> <<>>, committed |-> store]

Log(sess, call) == [sess EXCEPT !.calls = Append(@, call)]

StoreOf(sess) ==
    [clients |-> sess.clients, cars |-> sess.cars, records |-> sess.records]

\* AsyncSession.commit: the flushed rows become the committed store.
Commit(sess) == [Log(sess, "commit") EXCEPT !.committed = StoreOf(sess)]

\* Faulty variant: the name compared with == instead of ilike.
ClientQueryCaseSensitive(sess, name, phone) ==
    {c \in sess.clients : /\ c.name = name
                          /\ Truthy(phone) => c.phone = phone}

\* select(Client).where(Client.name.ilike(name)) [.where(Client.phone == phone)]
ClientQuery(sess, name, phone) ==
    {c \in sess.clients : /\ ILike(c.name, name)
                          /\ Truthy(phone) => c.phone = phone}

(***************************************************************************)
(* ClientRepository.get_or_create_client.  .first() of a query without     *)
(* ORDER BY is any one of the matching rows, so the result is a set of     *)
(* possible [sess, client] pairs.                                          *)
(***************************************************************************)
GetOrCreateClient(sess, name, phone) ==
    LET found == ClientQuery(sess, name, phone)
        s1 == Log(sess, "execute:Client")
        new == [id |-> NextId(sess.clients), name |-> name, phone |-> phone,
                created_at |-> sess.clock + 1]
    IN  IF found # {}
        THEN {[sess |-> s1, client |-> c] : c \in found}
        ELSE {[sess |-> [s1 EXCEPT !.clients = @ \cup {new},
                                   !.clock = @ + 1,
                                   !.calls = @ \o <<"add:Client", "flush">>],
               client |-> new]}

\* Faulty variant: brand is always a filter, so a call that leaves it
\* unspecified (None) matches no car.
CarQueryBrandAlways(sess, client_id, brand, model, color, year) ==
    {c \in sess.cars : /\ c.client_id = client_id
                       /\ ILike(c.model, model)
                       /\ brand # None /\ ILike(c.brand, brand)
                       /\ color # None => ILike(c.color, color)
                       /\ year # None => c.year = year}

\* The car query: client_id and model always, brand, color, year when not None.
CarQuery(sess, client_id, brand, model, color, year) ==
    {c \in sess.cars : /\ c.client_id = client_id
                       /\ ILike(c.model, model)
                       /\ brand # None => ILike(c.brand, brand)
                       /\ color # None => ILike(c.color, color)
                       /\ year # None => c.year = year}

\* Faulty variant: the new Car is built without client_id.
GetOrCreateCarUnowned(sess, client_id, brand, model, color, year) ==
    LET found == CarQuery(sess, client_id, brand, model, color, year)
        s1 == Log(sess, "execute:Car")
        new == [id |-> NextId(sess.cars), brand |-> brand, model |-> model,
                color |-> color, year |-> year, client_id |-> 0,
                created_at |-> sess.clock + 1]
    IN  IF found # {}
        THEN {[sess |-> s1, car |-> c] : c \in found}
        ELSE {[sess |-> [s1 EXCEPT !.cars = @ \cup {new},
                                   !.clock = @ + 1,
                                   !.calls = @ \o <<"add:Car", "flush">>],
               car |-> new]}

\* CarRepository.get_or_create_car
GetOrCreateCar(sess, client_id, brand, model, color, year) ==
    LET found == CarQuery(sess, client_id, brand, model, color, year)
        s1 == Log(sess, "execute:Car")
        new == [id |-> NextId(sess.cars), brand |-> brand, model |-> model,
                color |-> color, year |-> year, client_id |-> client_id,
                created_at |-> sess.clock + 1]
    IN  IF found # {}
        THEN {[sess |-> s1, car |-> c] : c \in found}
        ELSE {[sess |-> [s1 EXCEPT !.cars = @ \cup {new},
                                   !.clock = @ + 1,
                                   !.calls = @ \o <<"add:Car", "flush">>],
               car |-> new]}

\* Faulty variant: an existing record of the same car, service and date is
\* returned in place of a new one.
RepoCreateServiceRecordDedup(sess, car_id, servico, date, valor, observations) ==
    LET same == {r \in sess.records : /\ r.car_id = car_id
                                      /\ r.servico = servico
                                      /\ r.date = date}
        new == [id |-> NextId(sess.records), car_id |-> car_id,
                servico |-> servico, date |-> date, valor |-> valor,
                observations |-> observations, created_at |-> sess.clock + 1,
                active |-> TRUE]
    IN  IF same # {}
        THEN [sess |-> sess, record |-> CHOOSE r \in same : TRUE]
        ELSE [sess |-> [sess EXCEPT !.records = @ \cup {new},
                                    !.clock = @ + 1,
                                    !.calls = @ \o <<"add:ServiceRecord", "flush">>],
              record |-> new]

\* ServiceRecordRepository.create_service_record: always inserts.
RepoCreateServiceRecord(sess, car_id, servico, date, valor, observations) ==
    LET new == [id |-> NextId(sess.records), car_id |-> car_id,
                servico |-> servico, date |-> date, valor |-> valor,
                observations |-> observations, created_at |-> sess.clock + 1,
                active |-> TRUE]
    IN  [sess |-> [sess EXCEPT !.records = @ \cup {new},
                               !.clock = @ + 1,
                               !.calls = @ \o <<"add:ServiceRecord", "flush">>],
         record |-> new]

\* order_by(created_at.desc()) over a set of rows with distinct created_at.
RECURSIVE OrderDesc(_)
OrderDesc(rows) ==
    IF rows = {} THEN <<>>
    ELSE LET top == CHOOSE r \in rows : \A q \in rows : q.created_at <= r.created_at
         IN  <<top>> \o OrderDesc(rows \ {top})

(***************************************************************************)
(* The rows the search statement selects: ServiceRecord joined to Car, and *)
(* to Client when client_name is given; each given parameter is an ilike   *)
(* '%x%' filter; active filters on the flag; newest first.                 *)
(***************************************************************************)
SearchQuery(store, client_name, car_brand, car_model, service_description, active) ==
    OrderDesc({r \in store.records :
        \E car \in store.cars :
            /\ car.id = r.car_id
            /\ Truthy(client_name) =>
                 \E cl \in store.clients : /\ cl.id = car.client_id
                                           /\ ILike(cl.name, Contains(client_name))
            /\ Truthy(car_brand) => ILike(car.brand, Contains(car_brand))
            /\ Truthy(car_model) => ILike(car.model, Contains(car_model))
            /\ Truthy(service_description) =>
                 ILike(r.servico, Contains(service_description))
            /\ active => r.active = active})

(***************************************************************************)
(* ServiceRecordRepository.search_service_records executes the statement   *)
(* and then evaluates `await result.scalars().all()`.  AsyncSession.execute *)
(* returns a buffered Result whose scalars().all() is a plain list, and    *)
(* awaiting a list raises TypeError: the rows are never returned.          *)
(***************************************************************************)
RepoSearchServiceRecordsCommitting(sess, client_name, car_brand, car_model, description, active) ==
    [sess |-> Commit(Log(sess, "execute:ServiceRecord")),
     raised |-> TRUE,
     exc |-> [kind |-> "Exception", type |-> "TypeError",
              text |-> "object list can't be used in 'await' expression"],
     rows |-> SearchQuery(StoreOf(sess), client_name, car_brand, car_model,
                          description, active)]

RepoSearchServiceRecords(sess, client_name, car_brand, car_model, description, active) ==
    [sess |-> Log(sess, "execute:ServiceRecord"),
     raised |-> TRUE,
     exc |-> [kind |-> "Exception", type |-> "TypeError",
              text |-> "object list can't be used in 'await' expression"],
     rows |-> SearchQuery(StoreOf(sess), client_name, car_brand, car_model,
                          description, active)]

(***************************************************************************)
(* ServiceManagementService (the reconciliation service).  A message is    *)
(* its fixed text with the values formatted into it.                       *)
(***************************************************************************)
Msg(text, args) == [text |-> text, args |-> args]

CreateGuidance ==
    Msg("Por favor, forneca nome do cliente, modelo do carro e descricao do servico.", <<>>)

SearchGuidance ==
    Msg("Por favor, forneca nome do cliente, marca, modelo do carro ou descricao do servico para a pesquisa.", <<>>)

Returned(sess, op, result) ==
    [sess |-> sess, svc |-> [op |-> op, kind |-> "returned", result |-> result]]

Raised(sess, op, exc) ==
    [sess |-> sess, svc |-> [op |-> op, kind |-> "raised", exc |-> exc]]

\* service_date: strptime when the string is truthy, None on ValueError.
ParseServiceDate(service_date_str) ==
    IF Truthy(service_date_str) /\ Strptime(service_date_str).ok
    THEN Strptime(service_date_str).date
    ELSE None

\* Faulty variant: no fallback to the current date.
DateNoFallback(service_date, now_date) == service_date

\* date=service_date or datetime.now().date()
DateOrToday(service_date, now_date) ==
    IF service_date # None THEN service_date ELSE now_date

\* Faulty variant: the description is not checked.
CreateDataValidNoDescription(data) ==
    /\ Truthy(Get(data, "client_name"))
    /\ Truthy(Get(data, "car_model"))

\* The three required fields of a create payload.
CreateDataValid(data) ==
    /\ Truthy(Get(data, "client_name"))
    /\ Truthy(Get(data, "car_model"))
    /\ Truthy(Get(data, "service_description"))

\* Lines 55-75: insert the record, commit, refresh the three entities, answer.
CreateRecordAndCommit(sess, data, client, car, now_date) ==
    LET ins == RepoCreateServiceRecord(
                   sess, car.id, Get(data, "service_description"),
                   DateOrToday(ParseServiceDate(Get(data, "service_date")), now_date),
                   Get(data, "service_valor"), Get(data, "service_observations"))
        s1 == Commit(ins.sess)
        s2 == [s1 EXCEPT !.calls = @ \o <<"refresh:Client", "refresh:Car",
                                          "refresh:ServiceRecord">>]
    IN  Returned(s2, "create_service_record",
                 [success |-> TRUE, client |-> client, car |-> car,
                  service_record |-> ins.record,
                  message |-> Msg("Servico registrado com sucesso para",
                                  <<client.name, car.brand, car.model>>)])

\* ServiceManagementService.create_service_record: every possible run.
CreateServiceRecord(sess, data, now_date) ==
    IF ~CreateDataValid(data)
    THEN {Returned(sess, "create_service_record",
                   [success |-> FALSE, message |-> CreateGuidance,
                    status_code |-> 400])}
    ELSE UNION {
           {CreateRecordAndCommit(gc.sess, data, gcl.client, gc.car, now_date) :
              gc \in GetOrCreateCar(gcl.sess, gcl.client.id, Get(data, "car_brand"),
                                    Get(data, "car_model"), Get(data, "car_color"),
                                    Get(data, "car_year"))} :
           gcl \in GetOrCreateClient(sess, Get(data, "client_name"),
                                     Get(data, "client_phone"))}

\* Faulty variant: the guard tests `is None` instead of falsiness.
SearchParamsNone(search_params) ==
    /\ Get(search_params, "client_name") = None
    /\ Get(search_params, "car_brand") = None
    /\ Get(search_params, "car_model") = None
    /\ Get(search_params, "service_description") = None

\* The guard of search_service_records: no parameter is truthy.
SearchParamsEmpty(search_params) ==
    /\ ~Truthy(Get(search_params, "client_name"))
    /\ ~Truthy(Get(search_params, "car_brand"))
    /\ ~Truthy(Get(search_params, "car_model"))
    /\ ~Truthy(Get(search_params, "service_description"))

\* ServiceManagementService.search_service_records
SearchServiceRecords(sess, search_params) ==
    IF SearchParamsEmpty(search_params)
    THEN Returned(sess, "search_service_records",
                  [success |-> FALSE, message |-> SearchGuidance,
                   status_code |-> 400])
    ELSE LET q == RepoSearchServiceRecords(
                      sess, Get(search_params, "client_name"),
                      Get(search_params, "car_brand"),
                      Get(search_params, "car_model"),
                      Get(search_params, "service_description"), TRUE)
         IN  IF q.raised
             THEN Raised(q.sess, "search_service_records", q.exc)
             ELSE IF q.rows # <<>>
                  THEN Returned(q.sess, "search_service_records",
                                [success |-> TRUE,
                                 message |-> Msg("Servicos encontrados:", <<>>),
                                 service_records |-> q.rows])
                  ELSE Returned(q.sess, "search_service_records",
                                [success |-> FALSE,
                                 message |-> Msg("Nenhum servico encontrado com os criterios fornecidos.", <<>>),
                                 status_code |-> 200])

(***************************************************************************)
(* ChatService (the intent router).  A request ends with a ChatResponse or *)
(* with a raised exception: an HTTPException, or another Python exception  *)
(* on its way to handle_intent's generic handler.                          *)
(***************************************************************************)
NoService == [op |-> "none", kind |-> "none"]

HTTPException(status_code, detail) ==
    [kind |-> "HTTPException", status_code |-> status_code, detail |-> detail]

PyException(type, text) == [kind |-> "Exception", type |-> type, text |-> text]

ChatResponse(success, message, service_data, service_records) ==
    [kind |-> "ChatResponse", success |-> success, message |-> message,
     service_data |-> service_data, service_records |-> service_records]

Handled(sess, svc, outcome) == [sess |-> sess, svc |-> svc, outcome |-> outcome]

\* service_result.get("status_code", status.HTTP_400_BAD_REQUEST)
StatusCodeOf(result) ==
    IF "status_code" \in DOMAIN result THEN result.status_code ELSE 400

\* ServiceDataResponse.model_validate(record): the schema's seven fields, the
\* Date column read into a datetime field (midnight of that day).
ModelValidate(r) ==
    [id |-> r.id, car_id |-> r.car_id, servico |-> r.servico,
     date |-> r.date \o <<0, 0, 0>>, valor |-> r.valor,
     observations |-> r.observations, created_at |-> r.created_at]

ValidateAll(rows) == [i \in 1..Len(rows) |-> ModelValidate(rows[i])]

\* search_result.get("service_records", [])
RowsOf(result) ==
    IF "service_records" \in DOMAIN result THEN result.service_records ELSE <<>>

\* record.car and record.car.owner of a row the search joined to its car.
CarOf(store, r) == CHOOSE c \in store.cars : c.id = r.car_id

Owners(store, car) == {c \in store.clients : c.id = car.client_id}

\* record.car.owner.name if record.car and record.car.owner else <default>
OwnerName(store, car, default) ==
    IF Owners(store, car) # {}
    THEN (CHOOSE c \in Owners(store, car) : TRUE).name ELSE default

\* Lines 61-75 of _handle_create_service: formatted_message reads
\* service_record.car, which the validated ServiceDataResponse does not have.
FormatCreated(service_result) ==
    PyException("AttributeError", "'ServiceDataResponse' object has no attribute 'car'")

\* ChatService._handle_create_service
HandleCreateService(sess, gemini_response, now_date) ==
    IF DOMAIN gemini_response.data = {}
    THEN {Handled(sess, NoService,
                  HTTPException(400, Msg("Dados ausentes para criacao de servico.", <<>>)))}
    ELSE {IF ~run.svc.result.success
          THEN Handled(run.sess, run.svc,
                       HTTPException(StatusCodeOf(run.svc.result),
                                     run.svc.result.message))
          ELSE Handled(run.sess, run.svc, FormatCreated(run.svc.result)) :
          run \in CreateServiceRecord(sess, gemini_response.data, now_date)}

\* One entry of ChatService._format_service_records_for_response
FormatEntry(store, r) ==
    LET car == CarOf(store, r)
    IN  [client |-> OwnerName(store, car, <<"Desconhecido">>),
         brand |-> car.brand, model |-> car.model,
         servico |-> r.servico, date |-> r.date]

\* The single-record detail message of _handle_search_service
FormatDetail(store, r) ==
    LET car == CarOf(store, r)
    IN  [client |-> OwnerName(store, car, <<"Nao informado">>),
         brand |-> car.brand, model |-> car.model, year |-> car.year,
         servico |-> r.servico, date |-> r.date, valor |-> r.valor,
         observations |-> r.observations]

FormatServiceRecordsForResponse(store, rows) ==
    [i \in 1..Len(rows) |-> FormatEntry(store, rows[i])]

\* ChatService._handle_list_active_services
HandleListActiveServices(sess) ==
    LET run == SearchServiceRecords(sess, EmptyDict)
        rows == RowsOf(run.svc.result)
    IN  IF run.svc.kind = "raised"
        THEN Handled(run.sess, run.svc,
                     run.svc.exc)
        ELSE IF ~run.svc.result.success
        THEN Handled(run.sess, run.svc,
                     ChatResponse(FALSE, run.svc.result.message, None, <<>>))
        ELSE IF rows = <<>>
        THEN Handled(run.sess, run.svc,
                     ChatResponse(TRUE, Msg("Nenhum servico ativo encontrado.", <<>>),
                                  None, <<>>))
        ELSE Handled(run.sess, run.svc,
                     ChatResponse(TRUE,
                                  Msg("Servicos ativos:",
                                      FormatServiceRecordsForResponse(StoreOf(run.sess), rows)),
                                  None, ValidateAll(rows)))

\* ChatService._handle_search_service
HandleSearchService(sess, gemini_response) ==
    IF DOMAIN gemini_response.search_params = {}
    THEN HandleListActiveServices(sess)
    ELSE
    LET run == SearchServiceRecords(sess, gemini_response.search_params)
        rows == RowsOf(run.svc.result)
    IN  IF run.svc.kind = "raised"
        THEN Handled(run.sess, run.svc,
                     run.svc.exc)
        ELSE IF ~run.svc.result.success
        THEN Handled(run.sess, run.svc,
                     HTTPException(StatusCodeOf(run.svc.result), run.svc.result.message))
        ELSE IF rows = <<>>
        THEN Handled(run.sess, run.svc,
                     ChatResponse(TRUE,
                                  Msg("Nenhum servico ativo encontrado com os criterios fornecidos.", <<>>),
                                  None, <<>>))
        ELSE IF Len(rows) > 1
        THEN Handled(run.sess, run.svc,
                     ChatResponse(TRUE,
                                  Msg("Encontrei multiplos servicos ativos. Por favor, especifique a qual voce se refere",
                                      FormatServiceRecordsForResponse(StoreOf(run.sess), rows)),
                                  None, ValidateAll(rows)))
        ELSE Handled(run.sess, run.svc,
                     ChatResponse(TRUE,
                                  Msg("Detalhes do Servico Encontrado:",
                                      <<FormatDetail(StoreOf(run.sess), rows[1])>>),
                                  None, ValidateAll(rows)))

CreateIntents == {"record_service", "create_service", "create_service_record",
                  "register_service"}

SearchIntents == {"search_service", "search"}

\* Faulty variant: register_service is not among the create labels.
DispatchWithoutSynonym(intent) ==
    IF intent \in CreateIntents \ {"register_service"} THEN "create"
    ELSE IF intent \in SearchIntents THEN "search"
    ELSE IF intent = "list_active_services" THEN "list"
    ELSE "unknown"

\* The branch handle_intent takes for an intent label.
Dispatch(intent) ==
    IF intent \in CreateIntents THEN "create"
    ELSE IF intent \in SearchIntents THEN "search"
    ELSE IF intent = "list_active_services" THEN "list"
    ELSE "unknown"

\* Faulty variant: no `except HTTPException: raise` before the generic handler.
AtRouterBoundaryCatchAll(h) ==
    IF h.outcome.kind \in {"Exception", "HTTPException"}
    THEN [h EXCEPT !.outcome =
            HTTPException(500, Msg("Ocorreu um erro inesperado ao processar a intencao:",
                                   <<"HTTPException">>))]
    ELSE h

\* Faulty variant: `except AttributeError as e` in place of `except Exception`.
AtRouterBoundaryNarrow(h) ==
    IF h.outcome.kind = "Exception" /\ h.outcome.type = "AttributeError"
    THEN [h EXCEPT !.outcome =
            HTTPException(500, Msg("Ocorreu um erro inesperado ao processar a intencao:",
                                   <<h.outcome.text>>))]
    ELSE h

\* except HTTPException: raise / except Exception as e: raise HTTPException(500)
AtRouterBoundary(h) ==
    IF h.outcome.kind = "Exception"
    THEN [h EXCEPT !.outcome =
            HTTPException(500, Msg("Ocorreu um erro inesperado ao processar a intencao:",
                                   <<h.outcome.text>>))]
    ELSE h

\* ChatService.handle_intent: every possible run of one request.
HandleIntent(sess, gemini_response, now_date) ==
    LET branch == Dispatch(gemini_response.intent)
        runs == CASE branch = "create" ->
                       HandleCreateService(sess, gemini_response, now_date)
                  [] branch = "search" -> {HandleSearchService(sess, gemini_response)}
                  [] branch = "list" -> {HandleListActiveServices(sess)}
                  [] OTHER ->
                       {Handled(sess, NoService,
                                HTTPException(400, Msg("Intencao desconhecida:",
                                                       <<gemini_response.intent>>)))}
    IN  {[run |-> AtRouterBoundary(h), dispatched |-> branch,
          inner |-> h.outcome] : h \in runs}

(***************************************************************************)
(* The requests.  A classified request is what handle_intent reads of the  *)
(* classifier's answer: intent, data and search_params.                    *)
(***************************************************************************)
MaxRecords == 2

Names == {<<"a", "n">>, <<"A", "N">>, <<"b", "o">>}

Phones == {None, <<"1">>}

CreateData(name, phone, brand, model, color, year, description, date) ==
    [client_name |-> name, client_phone |-> phone, car_brand |-> brand,
     car_model |-> model, car_color |-> color, car_year |-> year,
     service_description |-> description, service_date |-> date,
     service_valor |-> None, service_observations |-> None]

Oil == <<"o", "i", "l">>

\* Payloads that differ in who the client is.
ClientPayloads ==
    {CreateData(n, ph, <<"v", "w">>, <<"u", "p">>, None, None, Oil, None) :
       n \in Names, ph \in Phones}

\* Payloads of one client that differ in which car is described.
CarPayloads ==
    {CreateData(<<"a", "n">>, None, b, m, None, y, Oil, None) :
       b \in {None, <<"v", "w">>, <<"V", "W">>},
       m \in {<<"u", "p">>, <<"U", "P">>, <<"g", "o", "l">>},
       y \in {None, <<"2020">>}}

DateStrings ==
    {<<>>,
     <<"2", "0", "2", "4", "-", "1", "0", "-", "2", "5">>,
     <<"2", "0", "2", "4", "-", "1", "-", "5">>,
     <<"2", "0", "2", "4", "-", "0", "2", "-", "3", "0">>,
     <<"n", "o", "t", "-", "a", "-", "d", "a", "t", "e">>}

\* Payloads that differ in the service date.
DatePayloads ==
    {CreateData(<<"a", "n">>, None, <<"v", "w">>, <<"u", "p">>, None, None, Oil, d) :
       d \in DateStrings}

\* Payloads with required fields missing (None) or empty.
InvalidPayloads ==
    {CreateData(n, None, <<"v", "w">>, m, None, None, s, None) :
       n \in {None, <<>>, <<"a", "n">>},
       m \in {None, <<>>, <<"u", "p">>},
       s \in {None, <<>>, Oil}} \ ClientPayloads

SearchParams(name, brand, model, description) ==
    [client_name |-> name, car_brand |-> brand, car_model |-> model,
     service_description |-> description]

\* Searches whose parameters are all absent (None) or empty.
EmptySearches ==
    {SearchParams(n, b, m, s) :
       n \in {None, <<>>}, b \in {None, <<>>}, m \in {None, <<>>}, s \in {None, <<>>}}

SearchPayloads ==
    EmptySearches \cup
    {SearchParams(n, b, m, s) :
       n \in {None, <<"N">>}, b \in {None, <<"w">>},
       m \in {None, <<"g">>}, s \in {None, <<"I", "L">>, <<"x">>}}

Request(intent, data, search_params) ==
    [intent |-> intent, data |-> data, search_params |-> search_params]

BaseData == CreateData(<<"a", "n">>, None, <<"v", "w">>, <<"u", "p">>, None, None, Oil, None)

UnknownIntents == {"delete_service", "Search", "list_services"}

Requests ==
    {Request("record_service", d, EmptyDict) :
       d \in ClientPayloads \cup CarPayloads \cup DatePayloads \cup InvalidPayloads
             \cup {EmptyDict}}
    \cup {Request(i, BaseData, EmptyDict) : i \in CreateIntents}
    \cup {Request("search_service", EmptyDict, p) : p \in SearchPayloads \cup {EmptyDict}}
    \cup {Request("search", EmptyDict, SearchParams(None, None, <<"u">>, None))}
    \cup {Request("list_active_services", EmptyDict, EmptyDict)}
    \cup {Request(i, BaseData, SearchParams(<<"a">>, None, None, None)) :
            i \in UnknownIntents}

Todays == {<<2024, 10, 25>>, <<2026, 11, 5>>}

(***************************************************************************)
(* The state: the committed store, the insert clock, the current date,     *)
(* and the record of the request in hand: the request, the store before    *)
(* it, the branch taken, the service call and its result, the session's    *)
(* calls, the outcome, and inner: what the handler returned or raised       *)
(* before handle_intent's except clauses.  reqs holds the requests in      *)
(* flight when several run concurrently, api the last call of a Gemini     *)
(* client, crud the last call of a CRUD endpoint, repo the last pair of    *)
(* calls of a get-or-create repository method, http the last call of a     *)
(* chat HTTP entry point.                                                  *)
(***************************************************************************)
VARIABLES db, clock, today, pc, request, pre, dispatched, svc, calls, outcome,
          inner, reqs, api, crud, repo, http

vars == <<db, clock, today, pc, request, pre, dispatched, svc, calls, outcome,
          inner, reqs, api, crud, repo, http>>

NoRequest == Request("", EmptyDict, EmptyDict)

NoOutcome == [kind |-> "none"]

\* The request ids of the concurrent runs.
Rids == {1, 2}

NoRow == [id |-> 0]

\* A request that has not arrived.
IdleReq ==
    [pc |-> "idle", hangs |-> FALSE, reply |-> [kind |-> "none"],
     request |-> NoRequest, staged |-> EmptyStore, written |-> EmptyStore,
     calls |-> <<>>, client |-> NoRow, car |-> NoRow,
     looked |-> [client |-> "no", car |-> "no"], committed |-> FALSE,
     inner |-> NoOutcome, outcome |-> NoOutcome]

NoCall == [op |-> "none"]

Init ==
    /\ db = EmptyStore
    /\ clock = 0
    /\ today \in Todays
    /\ pc = "idle"
    /\ request = NoRequest
    /\ pre = EmptyStore
    /\ dispatched = "none"
    /\ svc = NoService
    /\ calls = <<>>
    /\ outcome = NoOutcome
    /\ inner = NoOutcome
    /\ reqs = [r \in Rids |-> IdleReq]
    /\ api = NoCall
    /\ crud = NoCall
    /\ repo = NoCall
    /\ http = NoCall

\* One request through ChatService.handle_intent, in a session of its own.
Handle(gemini_response) ==
    /\ pc = "idle"
    /\ Dispatch(gemini_response.intent) = "create"
         => Cardinality(db.records) < MaxRecords
    /\ \E h \in HandleIntent(OpenSession(db, clock), gemini_response, today) :
         /\ db' = h.run.sess.committed
         /\ clock' = h.run.sess.clock
         /\ dispatched' = h.dispatched
         /\ svc' = h.run.svc
         /\ calls' = h.run.sess.calls
         /\ outcome' = h.run.outcome
         /\ inner' = h.inner
    /\ request' = gemini_response
    /\ pre' = db
    /\ pc' = "done"
    /\ UNCHANGED <<today, reqs, api, crud, repo, http>>

HandleRequest == \E r \in Requests : Handle(r)

\* get_db's finally: the response is out and the session closed.
CloseSession ==
    /\ pc = "done"
    /\ pc' = "idle"
    /\ request' = NoRequest
    /\ pre' = EmptyStore
    /\ dispatched' = "none"
    /\ svc' = NoService
    /\ calls' = <<>>
    /\ outcome' = NoOutcome
    /\ inner' = NoOutcome
    /\ UNCHANGED <<db, clock, today, reqs, api, crud, repo, http>>

Next == HandleRequest \/ CloseSession

Spec == Init /\ [][Next]_vars

(***************************************************************************)
(* Properties.  They are stated over the record of the request in hand     *)
(* (pc = "done"): the request, the store before it (pre) and after it      *)
(* (db), the service result and the outcome.                               *)
(***************************************************************************)
\* The service create_service_record ran on the request's payload.
CreateRan == pc = "done" /\ svc.op = "create_service_record"

CreateSucceeded == CreateRan /\ svc.kind = "returned" /\ svc.result.success

\* Each of the three required fields is present and not empty.
HasRequired(data) ==
    \A k \in {"client_name", "car_model", "service_description"} :
        k \in DOMAIN data /\ data[k] \notin {None, <<>>}

\* The existing clients the payload names: same name up to case, and the
\* same phone when the payload supplies one.
SameClients(store, data) ==
    {c \in store.clients :
        /\ Lower(c.name) = Lower(data.client_name)
        /\ data.client_phone \notin {None, <<>>} => c.phone = data.client_phone}

\* C1: a valid create payload that matches no existing client succeeds and
\* adds exactly one Client, one Car and one ServiceRecord to the committed
\* store, the car pointing to the new client and the record to the new car.
C1_NewClientAddsOneOfEach ==
    (/\ CreateRan
     /\ HasRequired(request.data)
     /\ ClientQuery(pre, request.data.client_name, request.data.client_phone) = {})
    => /\ svc.kind = "returned"
       /\ svc.result.success
       /\ LET r == svc.result
          IN  /\ r.client \notin pre.clients
              /\ db.clients = pre.clients \cup {r.client}
              /\ r.car \notin pre.cars
              /\ db.cars = pre.cars \cup {r.car}
              /\ r.service_record \notin pre.records
              /\ db.records = pre.records \cup {r.service_record}
              /\ r.car.client_id = r.client.id
              /\ r.service_record.car_id = r.car.id
              /\ \A c \in pre.clients : c.id # r.client.id
              /\ \A c \in pre.cars : c.id # r.car.id

C1_Witness ==
    /\ CreateSucceeded
    /\ pre.clients # {}
    /\ ClientQuery(pre, request.data.client_name, request.data.client_phone) = {}
    /\ Cardinality(db.clients) = Cardinality(pre.clients) + 1
    /\ Cardinality(db.cars) = Cardinality(pre.cars) + 1

\* C2: a valid create payload naming an existing client (same name up to
\* case, same phone if supplied) adds no Client row and uses an existing
\* client; and when the client used already owns a car matching the payload
\* under the car rule, it adds no Car row and uses such a car.
C2_ExistingClientAndCarReused ==
    (/\ CreateRan
     /\ HasRequired(request.data)
     /\ SameClients(pre, request.data) # {})
    => /\ CreateSucceeded
       /\ db.clients = pre.clients
       /\ svc.result.client \in pre.clients
       /\ Lower(svc.result.client.name) = Lower(request.data.client_name)
       /\ LET d == request.data
              owned == CarQuery(pre, svc.result.client.id, d.car_brand,
                                d.car_model, d.car_color, d.car_year)
          IN  owned # {} => /\ db.cars = pre.cars
                            /\ svc.result.car \in owned

C2_Witness ==
    /\ CreateSucceeded
    /\ SameClients(pre, request.data) # {}
    /\ svc.result.client.name # request.data.client_name
    /\ svc.result.car \in pre.cars
    /\ svc.result.car.model # request.data.car_model
    /\ db.clients = pre.clients
    /\ db.cars = pre.cars

\* C3: a create payload with client_name, car_model or service_description
\* missing or empty is answered success=false with the guidance message,
\* without any repository or session call, and the store is unchanged.
C3_InvalidCreateRejectedUntouched ==
    (CreateRan /\ ~HasRequired(request.data))
    => /\ svc.kind = "returned"
       /\ ~svc.result.success
       /\ svc.result.message = CreateGuidance
       /\ calls = <<>>
       /\ db = pre

C3_Witness ==
    /\ CreateRan
    /\ request.data.client_name # None
    /\ request.data.car_model # None
    /\ request.data.service_description = <<>>
    /\ ~svc.result.success
    /\ pre.records # {}

\* The four search parameters are all absent or empty.
AllBlank(params) ==
    \A k \in {"client_name", "car_brand", "car_model", "service_description"} :
        k \notin DOMAIN params \/ params[k] \in {None, <<>>}

\* The service search_service_records ran.
SearchRan == pc = "done" /\ svc.op = "search_service_records"

\* The parameters it was given: the request's, or {} from the list handler.
SearchArgs ==
    IF dispatched = "search" /\ DOMAIN request.search_params # {}
    THEN request.search_params ELSE EmptyDict

\* The rows the search statement selects on the store before the request.
Matches(params) ==
    SearchQuery(pre, Get(params, "client_name"), Get(params, "car_brand"),
                Get(params, "car_model"), Get(params, "service_description"), TRUE)

\* C4: a search whose four parameters are all absent or empty is answered
\* success=false with the guidance message, and no query is executed.
C4_BlankSearchRejectedUnqueried ==
    (SearchRan /\ AllBlank(SearchArgs))
    => /\ svc.kind = "returned"
       /\ ~svc.result.success
       /\ svc.result.message = SearchGuidance
       /\ calls = <<>>

C4_Witness ==
    /\ SearchRan
    /\ dispatched = "search"
    /\ DOMAIN request.search_params # {}
    /\ request.search_params.client_name = <<>>
    /\ request.search_params.car_model = None
    /\ ~svc.result.success
    /\ pre.records # {}

\* C5: a search with a non-empty parameter that matches no record returns a
\* success result with an empty list from the service, and the router
\* answers success=true with a "nothing found" message and an empty list.
C5_EmptySearchIsSuccess ==
    (/\ SearchRan
     /\ dispatched = "search"
     /\ ~AllBlank(request.search_params)
     /\ Matches(request.search_params) = <<>>)
    => /\ svc.kind = "returned"
       /\ svc.result.success
       /\ RowsOf(svc.result) = <<>>
       /\ outcome.kind = "ChatResponse"
       /\ outcome.success
       /\ outcome.service_records = <<>>

\* C6: list_active_services answers success=true with every active record,
\* as a search constrained only by active=true would select them.
C6_ListReturnsActiveRecords ==
    (pc = "done" /\ dispatched = "list")
    => /\ outcome.kind = "ChatResponse"
       /\ outcome.success
       /\ outcome.service_records = ValidateAll(Matches(EmptyDict))

\* C7: a search that matches n >= 1 records answers success=true with
\* exactly those records in the repository's order, with the detail message
\* for n = 1 and one disambiguation entry per match for n >= 2.
C7_MatchesAreReturned ==
    (/\ SearchRan
     /\ dispatched = "search"
     /\ ~AllBlank(request.search_params)
     /\ Matches(request.search_params) # <<>>)
    => /\ outcome.kind = "ChatResponse"
       /\ outcome.success
       /\ outcome.service_records = ValidateAll(Matches(request.search_params))
       /\ Len(outcome.message.args) = Len(Matches(request.search_params))

\* C8: handle_intent sends record_service, create_service,
\* create_service_record and register_service to the create operation,
\* search_service and search to the search operation, and
\* list_active_services to the list operation, whatever requests came
\* before: the branch is a function of the current request's intent.
C8_DispatchBySynonym ==
    pc = "done" =>
      /\ request.intent \in {"record_service", "create_service",
                             "create_service_record", "register_service"}
           => /\ dispatched = "create"
              /\ DOMAIN request.data # {} => svc.op = "create_service_record"
      /\ request.intent \in {"search_service", "search"}
           => dispatched = "search" /\ svc.op = "search_service_records"
      /\ request.intent = "list_active_services"
           => dispatched = "list" /\ svc.op = "search_service_records"

C8_Witness ==
    /\ pc = "done"
    /\ request.intent = "register_service"
    /\ dispatched = "create"
    /\ svc.op = "create_service_record"
    /\ pre.records # {}

RecognizedIntents ==
    {"record_service", "create_service", "create_service_record",
     "register_service", "search_service", "search", "list_active_services"}

\* C9: an intent outside the recognized labels ends the request with an
\* HTTP 400 error whose detail cites the label; no service operation is
\* called, no session call is made, and the store is unchanged.
C9_UnknownIntentIsClientError ==
    (pc = "done" /\ request.intent \notin RecognizedIntents)
    => /\ outcome.kind = "HTTPException"
       /\ outcome.status_code = 400
       /\ outcome.detail.args = <<request.intent>>
       /\ svc = NoService
       /\ calls = <<>>
       /\ db = pre

\* C9, no retry: the request that ended in the error is only closed; the
\* store it leaves is the store it found.
C9_UnknownIntentIsTerminal ==
    [][(pc = "done" /\ request.intent \notin RecognizedIntents)
         => (pc' = "idle" /\ db' = db)]_vars

C9_Witness ==
    /\ pc = "done"
    /\ request.intent = "Search"
    /\ outcome.kind = "HTTPException"
    /\ outcome.status_code = 400
    /\ pre.records # {}

\* The date strings of the payloads and the dates they denote.
Oct25 == <<"2", "0", "2", "4", "-", "1", "0", "-", "2", "5">>

Jan5 == <<"2", "0", "2", "4", "-", "1", "-", "5">>

Unparseable ==
    {None, <<>>,
     <<"2", "0", "2", "4", "-", "0", "2", "-", "3", "0">>,
     <<"n", "o", "t", "-", "a", "-", "d", "a", "t", "e">>}

\* C10: a valid create payload always succeeds; the persisted record's date
\* is the date a well-formed service_date denotes, and the current date
\* when service_date is absent, empty or not parseable.
C10_DateParsedOrToday ==
    (CreateRan /\ HasRequired(request.data))
    => /\ svc.kind = "returned"
       /\ svc.result.success
       /\ svc.result.service_record \in db.records
       /\ LET d == request.data.service_date
              persisted == svc.result.service_record.date
          IN  /\ d = Oct25 => persisted = <<2024, 10, 25>>
              /\ d = Jan5 => persisted = <<2024, 1, 5>>
              /\ d \in Unparseable => persisted = today
              /\ d \in {Oct25, Jan5} \cup Unparseable

C10_Witness ==
    /\ CreateSucceeded
    /\ request.data.service_date = <<"n", "o", "t", "-", "a", "-", "d", "a", "t", "e">>
    /\ svc.result.service_record.date = today
    /\ today # <<2024, 10, 25>>
    /\ \E r \in pre.records : r.date = <<2024, 10, 25>>


(***************************************************************************)
(* The Gemini clients.  The external call generate_content answers with a  *)
(* response or raises; an exception is its class, the text str(e) gives,   *)
(* and its status code when it is an HTTPException.                        *)
(***************************************************************************)
ExtExc(class, text) == [kind |-> "raise", class |-> class, text |-> text]

ExtResponse(text, parsed) == [kind |-> "response", text |-> text, parsed |-> parsed]

\* The classes the except clauses tell apart, with the subclasses raised in
\* practice: pydantic's ValidationError is a ValueError, ServiceUnavailable a
\* GoogleAPIError; google.genai's ClientError and TimeoutError are neither.
IsValueError(e) == e.class \in {"ValueError", "ValidationError"}

IsGoogleAPIError(e) == e.class \in {"GoogleAPIError", "ServiceUnavailable"}

IsHTTPException(e) == e.class = "HTTPException"

Whitespace == {" ", "\t", "\n"}

RECURSIVE LStrip(_)
LStrip(s) == IF s # <<>> /\ Head(s) \in Whitespace THEN LStrip(Tail(s)) ELSE s

RECURSIVE RStrip(_)
RStrip(s) ==
    IF s # <<>> /\ s[Len(s)] \in Whitespace
    THEN RStrip(SubSeq(s, 1, Len(s) - 1)) ELSE s

\* str.strip()
Strip(s) == RStrip(LStrip(s))

\* What a client method did: the external calls it made and how it ended.
ApiReturned(n, value) == [calls |-> n, result |-> [kind |-> "returned", value |-> value]]

ApiRaised(n, status_code, detail) == [calls |-> n, result |-> HTTPException(status_code, detail)]

\* Faulty variant: ValueError is not told apart from the other errors.
ProcessUserMessageNoValueError(message, reply) ==
    IF reply.kind = "raise"
    THEN IF IsGoogleAPIError(reply)
         THEN ApiRaised(1, 500, Msg("Erro na API do Gemini:", <<reply.text>>))
         ELSE ApiRaised(1, 500, Msg("Ocorreu um erro inesperado:", <<reply.text>>))
    ELSE ApiReturned(1, reply.parsed)

\* GeminiAPIClient.process_user_message
ProcessUserMessage(message, reply) ==
    IF reply.kind = "raise"
    THEN IF IsGoogleAPIError(reply)
         THEN ApiRaised(1, 500, Msg("Erro na API do Gemini:", <<reply.text>>))
         ELSE IF IsValueError(reply)
         THEN ApiRaised(1, 400, Msg("Erro de validacao:", <<reply.text>>))
         ELSE ApiRaised(1, 500, Msg("Ocorreu um erro inesperado:", <<reply.text>>))
    ELSE ApiReturned(1, reply.parsed)

\* Faulty variant: the generic handler without `except HTTPException: raise`.
TranscribeExceptCatchAll(n, e) ==
    IF IsGoogleAPIError(e)
    THEN ApiRaised(n, 500, Msg("Erro na API do Gemini durante transcricao de audio:",
                               <<e.text>>))
    ELSE ApiRaised(n, 500, Msg("Ocorreu um erro inesperado durante a transcricao do audio:",
                               <<e.text>>))

\* except HTTPException: raise / except GoogleAPIError / except Exception
TranscribeExcept(n, e) ==
    IF IsHTTPException(e) THEN ApiRaised(n, e.status_code, e.detail)
    ELSE IF IsGoogleAPIError(e)
    THEN ApiRaised(n, 500, Msg("Erro na API do Gemini durante transcricao de audio:",
                               <<e.text>>))
    ELSE ApiRaised(n, 500, Msg("Ocorreu um erro inesperado durante a transcricao do audio:",
                               <<e.text>>))

\* An HTTPException raised inside the try block, as transcribe_audio raises its own.
RaisedHTTPException(status_code, detail) ==
    [kind |-> "raise", class |-> "HTTPException", text |-> detail.text,
     status_code |-> status_code, detail |-> detail]

\* Lines 62-71: strip the text, reject an empty transcription.
TranscribeResult(reply) ==
    IF reply.text = None
    THEN TranscribeExcept(1, ExtExc("AttributeError",
                                    "'NoneType' object has no attribute 'strip'"))
    ELSE IF ~Truthy(Strip(reply.text))
    THEN TranscribeExcept(1, RaisedHTTPException(400, Msg("Transcricao retornou texto vazio", <<>>)))
    ELSE ApiReturned(1, Strip(reply.text))

\* GeminiAudioClient.transcribe_audio.  audio_file.read() gives the bytes or
\* raises; reply is the answer of the external call, if it is made.
TranscribeAudio(audio_file, reply) ==
    IF audio_file.read.kind = "raise" THEN TranscribeExcept(0, audio_file.read)
    ELSE IF Len(audio_file.read.bytes) = 0
    THEN TranscribeExcept(0, RaisedHTTPException(400, Msg("Arquivo de audio vazio", <<>>)))
    ELSE IF reply.kind = "raise" THEN TranscribeExcept(1, reply)
    ELSE TranscribeResult(reply)

(***************************************************************************)
(* Calls of the two client methods, one at a time, on every input and      *)
(* every answer of the external call.                                      *)
(***************************************************************************)
AudioBytes == {<<>>, <<1>>, <<1, 2>>}

AudioFiles ==
    {[read |-> [kind |-> "bytes", bytes |-> b]] : b \in AudioBytes}
    \cup {[read |-> ExtExc("OSError", "read failed")]}

Texts ==
    {None, <<>>, <<" ">>, <<"\n", " ">>, <<"o", "k">>, <<" ", "o", "k", "\n">>,
     <<"o", " ", "k">>, <<"\t", "a", " ">>}

ErrorTexts == {"quota exceeded", "connection reset"}

ExtErrors ==
    {ExtExc(c, t) :
       c \in {"GoogleAPIError", "ServiceUnavailable", "ValueError",
              "ValidationError", "ClientError", "TimeoutError"},
       t \in ErrorTexts}
    \cup {RaisedHTTPException(503, Msg("upstream unavailable", <<>>))}

TranscribeReplies == {ExtResponse(t, None) : t \in Texts} \cup ExtErrors

\* response.parsed: the classification, or nothing when the answer did not parse.
NoParsed == [intent |-> None]

Parsed ==
    {NoParsed, Request("record_service", BaseData, EmptyDict),
     Request("search_service", EmptyDict, SearchParams(<<"a">>, None, None, None))}

ProcessReplies == {ExtResponse(None, p) : p \in Parsed} \cup ExtErrors

Messages == {<<"o", "i", "l">>, <<"u", "p", "?">>}

ApiCall(op, arg, reply, done) ==
    [op |-> op, arg |-> arg, reply |-> reply, calls |-> done.calls,
     result |-> done.result]

CallTranscribeAudio ==
    /\ \E a \in AudioFiles, reply \in TranscribeReplies :
         api' = ApiCall("transcribe_audio", a, reply, TranscribeAudio(a, reply))
    /\ UNCHANGED <<db, clock, today, pc, request, pre, dispatched, svc, calls,
                   outcome, inner, reqs, crud, repo, http>>

CallProcessUserMessage ==
    /\ \E m \in Messages, reply \in ProcessReplies :
         api' = ApiCall("process_user_message", m, reply, ProcessUserMessage(m, reply))
    /\ UNCHANGED <<db, clock, today, pc, request, pre, dispatched, svc, calls,
                   outcome, inner, reqs, crud, repo, http>>

ApiNext == CallTranscribeAudio \/ CallProcessUserMessage

ApiSpec == Init /\ [][ApiNext]_vars

(***************************************************************************)
(* Properties of the client methods, over the record of the last call.     *)
(***************************************************************************)
\* transcribe_audio was called and audio_file.read() gave the bytes.
AudioRead == api.op = "transcribe_audio" /\ api.arg.read.kind = "bytes"

AllWhitespace(t) == \A i \in 1..Len(t) : t[i] \in Whitespace

\* v is t without its leading and its trailing whitespace.
IsStripped(v, t) ==
    \E i \in 1..Len(t), j \in 1..Len(t) :
        /\ i <= j
        /\ v = SubSeq(t, i, j)
        /\ t[i] \notin Whitespace
        /\ t[j] \notin Whitespace
        /\ \A k \in 1..Len(t) : (k < i \/ k > j) => t[k] \in Whitespace

\* C17: transcribe_audio rejects zero-length audio with HTTP 400 before any
\* external call; rejects a transcription that is all whitespace with a
\* different HTTP 400 after exactly one external call; and returns any other
\* transcription without its leading and trailing whitespace.
C17_TranscriptionRejections ==
    AudioRead =>
      LET n == Len(api.arg.read.bytes)
          r == api.reply
      IN  /\ n = 0 =>
                /\ api.calls = 0
                /\ api.result = HTTPException(400, Msg("Arquivo de audio vazio", <<>>))
          /\ (n > 0 /\ r.kind = "response" /\ r.text # None /\ AllWhitespace(r.text)) =>
                /\ api.calls = 1
                /\ api.result.kind = "HTTPException"
                /\ api.result.status_code = 400
                /\ api.result.detail = Msg("Transcricao retornou texto vazio", <<>>)
          /\ (n > 0 /\ r.kind = "response" /\ r.text # None /\ ~AllWhitespace(r.text)) =>
                /\ api.calls = 1
                /\ api.result.kind = "returned"
                /\ IsStripped(api.result.value, r.text)

C17_Witness ==
    /\ AudioRead
    /\ Len(api.arg.read.bytes) > 0
    /\ api.reply.kind = "response"
    /\ api.reply.text = <<"\n", " ">>
    /\ api.calls = 1
    /\ api.result.kind = "HTTPException"
    /\ api.result.status_code = 400

\* The external call was made and raised.
ExternalCallRaised ==
    /\ api.op \in {"process_user_message", "transcribe_audio"}
    /\ api.reply.kind = "raise"
    /\ api.op = "transcribe_audio" =>
         AudioRead /\ Len(api.arg.read.bytes) > 0

\* The detail of the error carries the text of the exception.
DetailCarries(detail, text) == \E i \in 1..Len(detail.args) : detail.args[i] = text

\* C18 as claimed: whenever the external call raises, the method reports an
\* HTTP 500 error whose detail contains the underlying message, after
\* exactly one external call.
C18_ExternalErrorIs500 ==
    ExternalCallRaised =>
      /\ api.calls = 1
      /\ api.result.kind = "HTTPException"
      /\ api.result.status_code = 500
      /\ DetailCarries(api.result.detail, api.reply.text)

\* C18 amended: whenever the external call raises, exactly one external call
\* was made and the method reports an HTTP error that carries the underlying
\* message: HTTP 500, except that process_user_message reports a ValueError
\* as HTTP 400 and transcribe_audio re-raises an HTTPException as it is.
C18_ExternalErrorReportedOnce ==
    ExternalCallRaised =>
      /\ api.calls = 1
      /\ api.result.kind = "HTTPException"
      /\ IF /\ api.op = "process_user_message"
            /\ api.reply.class \in {"ValueError", "ValidationError"}
         THEN /\ api.result.status_code = 400
              /\ DetailCarries(api.result.detail, api.reply.text)
         ELSE IF api.op = "transcribe_audio" /\ api.reply.class = "HTTPException"
         THEN /\ api.result.status_code = api.reply.status_code
              /\ api.result.detail = api.reply.detail
         ELSE /\ api.result.status_code = 500
              /\ DetailCarries(api.result.detail, api.reply.text)

C18_Witness ==
    /\ ExternalCallRaised
    /\ api.op = "transcribe_audio"
    /\ api.reply.class = "ServiceUnavailable"
    /\ api.calls = 1
    /\ api.result.status_code = 500
    /\ DetailCarries(api.result.detail, "quota exceeded")

(***************************************************************************)
(* The CRUD endpoints of routers/services.py, each a request in a session  *)
(* of its own.  An endpoint gives the committed store it leaves and its    *)
(* response.  SQLite does not enforce a FOREIGN KEY unless the connection  *)
(* sets PRAGMA foreign_keys, which the engine does not.                    *)
(***************************************************************************)
CrudDone(store, now, status_code, body) ==
    [store |-> store, clock |-> now, status_code |-> status_code, body |-> body]

\* db.get(Model, id): the rows of the table with that primary key.
DbGet(rows, id) == {x \in rows : x.id = id}

\* create_client
CreateClient(store, now, client_data) ==
    LET new == [id |-> NextId(store.clients), name |-> client_data.name,
                phone |-> client_data.phone, created_at |-> now + 1]
    IN  CrudDone([store EXCEPT !.clients = @ \cup {new}], now + 1, 201, new)

\* create_car
CreateCar(store, now, car_data) ==
    IF DbGet(store.clients, car_data.client_id) = {}
    THEN CrudDone(store, now, 404, [detail |-> "Client not found"])
    ELSE LET new == [id |-> NextId(store.cars), brand |-> car_data.brand,
                     model |-> car_data.model, color |-> car_data.color,
                     year |-> car_data.year, client_id |-> car_data.client_id,
                     created_at |-> now + 1]
         IN  CrudDone([store EXCEPT !.cars = @ \cup {new}], now + 1, 201, new)

\* service_data.date.date() if service_data.date else datetime.now().date()
DateOfDatetime(service_data, now_date) ==
    IF Get(service_data, "date") # None
    THEN SubSeq(service_data.date, 1, 3) ELSE now_date

\* create_service
CreateService(store, now, service_data, now_date) ==
    IF DbGet(store.cars, service_data.car_id) = {}
    THEN CrudDone(store, now, 404, [detail |-> "Car not found"])
    ELSE LET new == [id |-> NextId(store.records), car_id |-> service_data.car_id,
                     servico |-> service_data.servico,
                     date |-> DateOfDatetime(service_data, now_date),
                     valor |-> None, observations |-> None,
                     created_at |-> now + 1, active |-> TRUE]
         IN  CrudDone([store EXCEPT !.records = @ \cup {new}], now + 1, 201, new)

\* `if service_data.car_id and service_data.car_id != db_service_record.car_id`
\* is false, so that the car is not looked up.
CarCheckSkipped(service_data, record) ==
    service_data.car_id = 0 \/ service_data.car_id = record.car_id

\* for field, value in model_dump(exclude_unset=True).items(): setattr(...)
\* car_id and servico are required and so always set; date when given.
SetFields(record, service_data) ==
    [record EXCEPT !.car_id = service_data.car_id,
                   !.servico = service_data.servico,
                   !.date = IF "date" \in DOMAIN service_data
                            THEN SubSeq(service_data.date, 1, 3) ELSE @]

\* update_service_record
UpdateServiceRecord(store, now, service_id, service_data) ==
    IF DbGet(store.records, service_id) = {}
    THEN CrudDone(store, now, 404, [detail |-> "Service record not found"])
    ELSE LET record == CHOOSE x \in DbGet(store.records, service_id) : TRUE
         IN  IF /\ ~CarCheckSkipped(service_data, record)
                /\ DbGet(store.cars, service_data.car_id) = {}
             THEN CrudDone(store, now, 404, [detail |-> "Car not found"])
             ELSE LET new == SetFields(record, service_data)
                  IN  CrudDone([store EXCEPT !.records = (@ \ {record}) \cup {new}],
                               now, 200, new)

\* delete_service_record
DeleteServiceRecord(store, now, service_id) ==
    IF DbGet(store.records, service_id) = {}
    THEN CrudDone(store, now, 404, [detail |-> "Service record not found"])
    ELSE CrudDone([store EXCEPT !.records = @ \ DbGet(store.records, service_id)],
                  now, 204, [detail |-> "Service record deleted successfully"])

(***************************************************************************)
(* Chat creates and CRUD calls, one after the other, in any order.         *)
(***************************************************************************)
Ids == 0..MaxRecords

ClientCreates == {[name |-> <<"a", "n">>, phone |-> None]}

CarCreates ==
    {[brand |-> <<"v", "w">>, model |-> <<"u", "p">>, color |-> None,
      year |-> None, client_id |-> c] : c \in Ids}

ServiceCreates ==
    {[car_id |-> c, servico |-> Oil] : c \in Ids}
    \cup {[car_id |-> 1, servico |-> Oil, date |-> <<2024, 1, 5, 10, 30, 0>>]}

ChatCreates ==
    {BaseData,
     CreateData(<<"b", "o">>, None, None, <<"g", "o", "l">>, None, None, Oil, None)}

\* The inserts so far: created_at stays within the bound of the model.
ClockOpen == clock < 3 * MaxRecords

CrudStep(op, args, done) ==
    /\ db' = done.store
    /\ clock' = done.clock
    /\ crud' = [op |-> op, args |-> args, status_code |-> done.status_code]
    /\ UNCHANGED <<today, pc, request, pre, dispatched, svc, calls, outcome,
                   inner, reqs, api, repo, http>>

CrudChatCreate ==
    /\ ClockOpen
    /\ Cardinality(db.records) < MaxRecords
    /\ \E d \in ChatCreates :
         \E run \in CreateServiceRecord(OpenSession(db, clock), d, today) :
           CrudStep("create_service_record", d,
                    CrudDone(run.sess.committed, run.sess.clock, 200, run.svc.result))

CrudCreateClient ==
    /\ ClockOpen
    /\ Cardinality(db.clients) < MaxRecords
    /\ \E d \in ClientCreates :
         CrudStep("create_client", d, CreateClient(db, clock, d))

CrudCreateCar ==
    /\ ClockOpen
    /\ Cardinality(db.cars) < MaxRecords
    /\ \E d \in CarCreates : CrudStep("create_car", d, CreateCar(db, clock, d))

CrudCreateService ==
    /\ ClockOpen
    /\ Cardinality(db.records) < MaxRecords
    /\ \E d \in ServiceCreates :
         CrudStep("create_service", d, CreateService(db, clock, d, today))

CrudUpdateServiceRecord ==
    \E id \in Ids, d \in ServiceCreates :
        CrudStep("update_service_record", <<id, d>>,
                 UpdateServiceRecord(db, clock, id, d))

CrudDeleteServiceRecord ==
    \E id \in Ids :
        CrudStep("delete_service_record", id, DeleteServiceRecord(db, clock, id))

CrudNext ==
    \/ CrudChatCreate
    \/ CrudCreateClient
    \/ CrudCreateCar
    \/ CrudCreateService
    \/ CrudUpdateServiceRecord
    \/ CrudDeleteServiceRecord

CrudSpec == Init /\ [][CrudNext]_vars

\* C15: in every store state reached by chat creates and CRUD calls, every
\* Car's client_id is the id of an existing Client and every ServiceRecord's
\* car_id is the id of an existing Car.
C15_ReferencesValid ==
    /\ \A car \in db.cars : \E cl \in db.clients : cl.id = car.client_id
    /\ \A r \in db.records : \E car \in db.cars : car.id = r.car_id

(***************************************************************************)
(* Requests in flight together.  Each request has a session of its own     *)
(* (get_db) and runs on the event loop: between two awaits it runs alone,  *)
(* at an await the other requests may run.  A session reads the committed  *)
(* rows and the rows it has flushed itself; what it flushed is staged      *)
(* until it commits.  The database is SQLite (Config.DATABASE_URL): one    *)
(* transaction writes at a time, and an INSERT waits while another session *)
(* holds flushed rows.  Any store call may raise instead of returning.     *)
(***************************************************************************)
\* The rows the session of request q reads.
View(d, q) ==
    [clients |-> d.clients \cup q.staged.clients,
     cars |-> d.cars \cup q.staged.cars,
     records |-> d.records \cup q.staged.records]

\* The session of request q as the repositories use it.
SessOf(d, now, q) ==
    [clients |-> View(d, q).clients, cars |-> View(d, q).cars,
     records |-> View(d, q).records, clock |-> now, calls |-> q.calls,
     committed |-> d]

\* The other sessions whose open transaction holds flushed rows.
Writers(rs, r) == {o \in Rids \ {r} : rs[o].staged # EmptyStore}

\* Faulty variant: the external call made synchronously holds the event loop.
ExternalCallBlocksLoop(rs, r) == Rids \ {r}

\* `await self.client.aio.models.generate_content(...)`: the requests that
\* cannot run while the external call of request r is pending.
ExternalCallBlocks(rs, r) == {}

Runnable(rs, r) ==
    \A o \in Rids : rs[o].pc = "classify" => r \notin ExternalCallBlocks(rs, o)

\* Faulty variant: the session is made with autocommit, a flush is final.
FlushAutocommit(d, staged) ==
    [clients |-> d.clients \cup staged.clients, cars |-> d.cars \cup staged.cars,
     records |-> d.records \cup staged.records]

\* The committed store after `await self.db.flush()`: as it was.
Flush(d, staged) == d

\* Faulty variant: a commit that keeps one client per name.
CommitStoreOnePerName(d, staged) ==
    [clients |-> d.clients \cup
                   {c \in staged.clients : \A o \in d.clients : ~ILike(o.name, c.name)},
     cars |-> d.cars \cup staged.cars,
     records |-> d.records \cup staged.records]

\* The committed store after `await self.db.commit()`.
CommitStore(d, staged) ==
    [clients |-> d.clients \cup staged.clients, cars |-> d.cars \cup staged.cars,
     records |-> d.records \cup staged.records]

\* The request ends: what the handler returned or raised passes
\* handle_intent's except clauses and becomes the response.
Respond(q, result) ==
    [q EXCEPT !.pc = "responded", !.inner = result,
              !.outcome = AtRouterBoundary([outcome |-> result]).outcome]

\* Faulty variant: close only after a normal return (no try/finally).
GetDbClosesOnReturn(exit) == exit.kind = "ChatResponse"

\* get_db: `try: yield session / finally: await session.close()`.
GetDbCloses(exit) == TRUE

StoreErrors == {"database is locked", "disk I/O error"}

\* The requests handle_intent answers without a store call.
NoStoreCall(g) ==
    \/ Dispatch(g.intent) \in {"list", "unknown"}
    \/ Dispatch(g.intent) = "create"
         /\ (DOMAIN g.data = {} \/ ~CreateDataValid(g.data))

TxRequests ==
    {Request("record_service", d, EmptyDict) :
       d \in {BaseData,
              CreateData(<<"A", "N">>, None, <<"V", "W">>, <<"U", "P">>, None, None,
                         Oil, None),
              CreateData(<<"a", "n">>, None, <<"v", "w">>, <<"u", "p">>, None, None,
                         <<>>, None)}}
    \cup {Request("list_active_services", EmptyDict, EmptyDict),
          Request("delete_service", EmptyDict, EmptyDict)}

\* The answers of the classification call for a message that means g.
TxReplies(g) == {ExtResponse(None, g), ExtExc("ClientError", "quota exceeded")}

frozen ==
    <<today, pc, request, pre, dispatched, svc, calls, outcome, inner, api, crud,
      repo, http>>

Put(r, q) == reqs' = [reqs EXCEPT ![r] = q]

\* A request arrives: get_db opens its session and the classification call
\* is made.  hangs: that call never returns.
Open(r) ==
    /\ reqs[r].pc = "idle"
    /\ Runnable(reqs, r)
    /\ \E g \in TxRequests, hangs \in BOOLEAN :
         \E reply \in TxReplies(g) :
           Put(r, [IdleReq EXCEPT !.pc = "classify", !.request = g,
                                  !.reply = reply, !.hangs = hangs])
    /\ UNCHANGED <<db, clock, frozen>>

\* The classification call returns or raises; handle_intent runs up to its
\* first store call.
Classify(r) ==
    LET q == reqs[r]
        done == ProcessUserMessage(q.request, q.reply)
    IN  /\ q.pc = "classify"
        /\ ~q.hangs
        /\ Runnable(reqs, r)
        /\ IF done.result.kind = "HTTPException"
           THEN Put(r, [q EXCEPT !.pc = "responded", !.outcome = done.result])
           ELSE IF NoStoreCall(done.result.value)
           THEN \E h \in HandleIntent(SessOf(db, clock, q), done.result.value, today) :
                  Put(r, [q EXCEPT !.pc = "responded", !.inner = h.inner,
                                   !.outcome = h.run.outcome])
           ELSE Put(r, [q EXCEPT !.pc = "client"])
        /\ UNCHANGED <<db, clock, frozen>>

\* get_or_create_client, lines 10-14: the query and .first().
LookupClient(r) ==
    LET q == reqs[r]
        d == q.request.data
        found == ClientQuery(View(db, q), Get(d, "client_name"), Get(d, "client_phone"))
        q1 == [q EXCEPT !.calls = Append(@, "execute:Client")]
    IN  /\ q.pc = "client"
        /\ Runnable(reqs, r)
        /\ IF found # {}
           THEN \E c \in found :
                  Put(r, [q1 EXCEPT !.pc = "car", !.client = c,
                                    !.looked.client = "hit"])
           ELSE Put(r, [q1 EXCEPT !.pc = "add_client", !.looked.client = "miss"])
        /\ UNCHANGED <<db, clock, frozen>>

\* get_or_create_client, lines 16-19: add and flush the new Client.
AddClient(r) ==
    LET q == reqs[r]
        d == q.request.data
        new == [id |-> NextId(View(db, q).clients), name |-> Get(d, "client_name"),
                phone |-> Get(d, "client_phone"), created_at |-> clock + 1]
        q1 == [q EXCEPT !.pc = "car", !.client = new,
                        !.staged.clients = @ \cup {new},
                        !.written.clients = @ \cup {new},
                        !.calls = @ \o <<"add:Client", "flush">>]
    IN  /\ q.pc = "add_client"
        /\ Runnable(reqs, r)
        /\ Writers(reqs, r) = {}
        /\ Put(r, q1)
        /\ db' = Flush(db, q1.staged)
        /\ clock' = clock + 1
        /\ UNCHANGED frozen

\* get_or_create_car, lines 11-27: the query and .first().
LookupCar(r) ==
    LET q == reqs[r]
        d == q.request.data
        found == CarQuery(View(db, q), q.client.id, Get(d, "car_brand"),
                          Get(d, "car_model"), Get(d, "car_color"), Get(d, "car_year"))
        q1 == [q EXCEPT !.calls = Append(@, "execute:Car")]
    IN  /\ q.pc = "car"
        /\ Runnable(reqs, r)
        /\ IF found # {}
           THEN \E c \in found :
                  Put(r, [q1 EXCEPT !.pc = "record", !.car = c, !.looked.car = "hit"])
           ELSE Put(r, [q1 EXCEPT !.pc = "add_car", !.looked.car = "miss"])
        /\ UNCHANGED <<db, clock, frozen>>

\* get_or_create_car, lines 29-39: add and flush the new Car.
AddCar(r) ==
    LET q == reqs[r]
        d == q.request.data
        new == [id |-> NextId(View(db, q).cars), brand |-> Get(d, "car_brand"),
                model |-> Get(d, "car_model"), color |-> Get(d, "car_color"),
                year |-> Get(d, "car_year"), client_id |-> q.client.id,
                created_at |-> clock + 1]
        q1 == [q EXCEPT !.pc = "record", !.car = new,
                        !.staged.cars = @ \cup {new},
                        !.written.cars = @ \cup {new},
                        !.calls = @ \o <<"add:Car", "flush">>]
    IN  /\ q.pc = "add_car"
        /\ Runnable(reqs, r)
        /\ Writers(reqs, r) = {}
        /\ Put(r, q1)
        /\ db' = Flush(db, q1.staged)
        /\ clock' = clock + 1
        /\ UNCHANGED frozen

\* create_service_record, lines 47-61: the date, then the repository adds
\* and flushes the new ServiceRecord.
AddRecord(r) ==
    LET q == reqs[r]
        d == q.request.data
        ins == RepoCreateServiceRecord(
                   SessOf(db, clock, q), q.car.id, Get(d, "service_description"),
                   DateOrToday(ParseServiceDate(Get(d, "service_date")), today),
                   Get(d, "service_valor"), Get(d, "service_observations"))
        q1 == [q EXCEPT !.pc = "commit",
                        !.staged.records = @ \cup {ins.record},
                        !.written.records = @ \cup {ins.record},
                        !.calls = ins.sess.calls]
    IN  /\ q.pc = "record"
        /\ Runnable(reqs, r)
        /\ Writers(reqs, r) = {}
        /\ Put(r, q1)
        /\ db' = Flush(db, q1.staged)
        /\ clock' = ins.sess.clock
        /\ UNCHANGED frozen

\* create_service_record, line 64: await self.db.commit().
CommitTx(r) ==
    LET q == reqs[r]
    IN  /\ q.pc = "commit"
        /\ Runnable(reqs, r)
        /\ db' = CommitStore(db, q.staged)
        /\ Put(r, [q EXCEPT !.pc = "refresh", !.staged = EmptyStore,
                            !.committed = TRUE, !.calls = Append(@, "commit")])
        /\ UNCHANGED <<clock, frozen>>

\* create_service_record, lines 65-75, and what _handle_create_service makes
\* of the result: there is no await after the last refresh.
Refresh(r) ==
    LET q == reqs[r]
        q1 == [q EXCEPT !.calls = @ \o <<"refresh:Client", "refresh:Car",
                                         "refresh:ServiceRecord">>]
    IN  /\ q.pc = "refresh"
        /\ Runnable(reqs, r)
        /\ Put(r, Respond(q1, FormatCreated(q1)))
        /\ UNCHANGED <<db, clock, frozen>>

\* The store call a request is about to make.
StoreCall(step) ==
    CASE step = "client" -> <<"execute:Client">>
      [] step = "add_client" -> <<"add:Client", "flush">>
      [] step = "car" -> <<"execute:Car">>
      [] step = "add_car" -> <<"add:Car", "flush">>
      [] step = "record" -> <<"add:ServiceRecord", "flush">>
      [] step = "commit" -> <<"commit">>
      [] step = "refresh" -> <<"refresh:Client">>

\* The rows the session still holds after a store call raised: a failed
\* flush rolls its transaction back inside the ORM; a failed query, commit
\* or refresh leaves the transaction as it was.
StagedAfterError(q) ==
    IF q.pc \in {"add_client", "add_car", "record"} THEN EmptyStore ELSE q.staged

\* The store call raises.  create_service_record and _handle_create_service
\* catch nothing and call no rollback: the exception reaches handle_intent.
StoreFails(r) ==
    LET q == reqs[r]
    IN  /\ q.pc \in {"client", "add_client", "car", "add_car", "record",
                     "commit", "refresh"}
        /\ Runnable(reqs, r)
        /\ \E e \in StoreErrors :
             Put(r, Respond([q EXCEPT !.calls = @ \o StoreCall(q.pc),
                                      !.staged = StagedAfterError(q)],
                            PyException("OperationalError", e)))
        /\ UNCHANGED <<db, clock, frozen>>

\* get_db's finally: session.close() ends the transaction, and what was not
\* committed is gone.
Close(r) ==
    LET q == reqs[r]
    IN  /\ q.pc = "responded"
        /\ Runnable(reqs, r)
        /\ GetDbCloses(q.outcome)
        /\ Put(r, [q EXCEPT !.pc = "closed", !.staged = EmptyStore,
                            !.calls = Append(@, "close")])
        /\ UNCHANGED <<db, clock, frozen>>

\* What request r does once it has arrived.
Progress(r) ==
    \/ Classify(r)
    \/ LookupClient(r)
    \/ AddClient(r)
    \/ LookupCar(r)
    \/ AddCar(r)
    \/ AddRecord(r)
    \/ CommitTx(r)
    \/ Refresh(r)
    \/ StoreFails(r)
    \/ Close(r)

TxNext == \E r \in Rids : Open(r) \/ Progress(r)

TxSpec == Init /\ [][TxNext]_vars

\* The event loop runs every request that can run; nobody is starved.
FairTxSpec == TxSpec /\ \A r \in Rids : WF_vars(Progress(r))

(***************************************************************************)
(* Properties of the requests in flight.  written is the rows a request    *)
(* has flushed so far, whatever became of them.                            *)
(***************************************************************************)
Count(cs, c) == Cardinality({i \in 1..Len(cs) : cs[i] = c})

\* Call a is made, and before every call b.
Before(cs, a, b) ==
    \E i \in 1..Len(cs) : cs[i] = a /\ \A j \in 1..Len(cs) : cs[j] = b => i < j

AllIn(w, d) ==
    w.clients \subseteq d.clients /\ w.cars \subseteq d.cars
    /\ w.records \subseteq d.records

NoneIn(w, d) ==
    w.clients \cap d.clients = {} /\ w.cars \cap d.cars = {}
    /\ w.records \cap d.records = {}

\* C11: a create request commits at most once, and only after the client
\* and the car were resolved and the record was flushed, in that order; no
\* row it flushed is in the committed store before its commit, and after
\* its commit all of them are: the committed store never holds a part of
\* what one request wrote.
C11_CommitOnceAllOrNothing ==
    \A r \in Rids :
      LET q == reqs[r]
      IN  /\ Count(q.calls, "commit") <= 1
          /\ Count(q.calls, "commit") = 1 =>
               /\ Before(q.calls, "execute:Client", "execute:Car")
               /\ Before(q.calls, "execute:Car", "add:ServiceRecord")
               /\ Before(q.calls, "add:ServiceRecord", "commit")
               /\ \A c \in {"add:Client", "add:Car", "flush"} :
                    Count(q.calls, c) > 0 => Before(q.calls, c, "commit")
          /\ q.committed => Count(q.calls, "commit") = 1
          /\ ~q.committed => NoneIn(q.written, db)
          /\ q.committed => AllIn(q.written, db) /\ q.written.records # {}
          /\ AllIn(q.written, db) \/ NoneIn(q.written, db)

C11_Witness ==
    \E r \in Rids, o \in Rids :
        /\ reqs[r].pc = "closed"
        /\ reqs[r].written.clients # {}
        /\ reqs[r].written.records = {}
        /\ ~reqs[r].committed
        /\ reqs[o].committed
        /\ reqs[o].written.clients # {}
        /\ db.clients = reqs[o].written.clients

\* A store call of the request raised.
StoreFailed(q) == q.inner.kind = "Exception" /\ q.inner.type = "OperationalError"

\* C12: whenever a store call fails during a create request, the unit of
\* work is rolled back before the response is produced (the session holds
\* no flushed row and none of the request's rows is in the store) and the
\* response is an HTTP 500 error.
C12_FailureRolledBackBeforeResponse ==
    \A r \in Rids :
      LET q == reqs[r]
      IN  (q.pc = "responded" /\ StoreFailed(q)) =>
            /\ q.staged = EmptyStore
            /\ NoneIn(q.written, db)
            /\ q.outcome.kind = "HTTPException"
            /\ q.outcome.status_code = 500

\* C13: on every exit path of a request, the session get_db opened for it
\* is eventually closed.
C13_SessionEventuallyClosed ==
    \A r \in Rids : [](reqs[r].pc = "responded" => <>(reqs[r].pc = "closed"))

C13_Witness ==
    \E r \in Rids, o \in Rids :
        /\ reqs[r].pc = "closed"
        /\ reqs[r].inner.kind = "Exception"
        /\ reqs[r].outcome.status_code = 500
        /\ reqs[o].pc = "closed"
        /\ reqs[o].outcome.kind = "ChatResponse"

\* The clients of the store that bear the name, and the cars they own.
Namesakes(name) == {c \in db.clients : Lower(c.name) = Lower(name)}

CarsOfNamesakes(name) ==
    {car \in db.cars : \E c \in Namesakes(name) : car.client_id = c.id}

\* C14: when two create requests for the same new client both look the
\* client up before either commits, both commit: nothing rejects or merges
\* the second, and the committed store holds two Client rows of that name
\* and two Car rows.
C14_RaceLeavesDuplicates ==
    \A r \in Rids, o \in Rids :
      (/\ r # o
       /\ reqs[r].looked.client = "miss"
       /\ reqs[o].looked.client = "miss"
       /\ reqs[r].committed
       /\ reqs[o].committed
       /\ Lower(reqs[r].request.data.client_name)
            = Lower(reqs[o].request.data.client_name))
      => /\ Cardinality(Namesakes(reqs[r].request.data.client_name)) = 2
         /\ Cardinality(CarsOfNamesakes(reqs[r].request.data.client_name)) = 2
         /\ reqs[r].written.clients \cup reqs[o].written.clients \subseteq db.clients

C14_Witness ==
    /\ reqs[1].request.data = BaseData
    /\ reqs[2].request.data = BaseData
    /\ reqs[1].looked.client = "miss"
    /\ reqs[2].looked.client = "miss"
    /\ reqs[1].pc = "closed"
    /\ reqs[2].pc = "closed"
    /\ Cardinality(db.clients) = 2
    /\ Cardinality(db.cars) = 2
    /\ \A c \in db.clients : c.name = <<"a", "n">>

InFlight(q) == q.pc \notin {"idle", "responded", "closed"}

Completed(q) == q.pc \in {"responded", "closed"}

\* C16: a request whose external call returns completes, whatever the other
\* requests' external calls do; a request whose external call never returns
\* does not complete.
C16_HungCallBlocksOnlyItself ==
    \A r \in Rids :
      /\ [](InFlight(reqs[r]) /\ ~reqs[r].hangs => <>Completed(reqs[r]))
      /\ [](reqs[r].hangs => ~Completed(reqs[r]))

C16_Witness ==
    \E r \in Rids, o \in Rids :
        /\ reqs[r].hangs
        /\ reqs[r].pc = "classify"
        /\ reqs[o].pc = "closed"
        /\ reqs[o].committed

\* handle_intent ran for the request and ended.
IntentHandled(q) == Completed(q) /\ q.inner.kind # "none"

C20_ServerErrorIsGeneric ==
    \A r \in Rids, o \in Rids :
      (/\ IntentHandled(reqs[r])
       /\ IntentHandled(reqs[o])
       /\ reqs[r].request = reqs[o].request
       /\ reqs[r].calls = reqs[o].calls
       /\ reqs[r].inner.kind = "Exception"
       /\ reqs[o].inner.kind = "Exception"
       /\ reqs[r].inner.type = reqs[o].inner.type)
      => reqs[r].outcome = reqs[o].outcome

(***************************************************************************)
(* The get-or-create repository methods called on their own, twice in a    *)
(* row with the same arguments: in one transaction, or with a commit and a *)
(* new session in between.  .first() of a query without ORDER BY returns   *)
(* the first row of the table scan; the scan may run in either direction,  *)
(* and it is the same for the two calls, which execute the same statement. *)
(***************************************************************************)
ScanOrders == {"asc", "desc"}

\* The run whose entity the scan meets first.
FirstOf(runs, field, order) ==
    CHOOSE run \in runs :
      \A o \in runs : IF order = "asc" THEN run[field].id <= o[field].id
                                       ELSE run[field].id >= o[field].id

Transactions == {"same", "next"}

\* The session the second call runs in.
SecondSession(sess, transaction) ==
    IF transaction = "next"
    THEN OpenSession(Commit(sess).committed, sess.clock) ELSE sess

MaxRepoRows == 2

RepoNames == {<<"a", "n">>, <<"A", "N">>}

RepoCars ==
    [brand : {None, <<"v", "w">>}, model : {<<"u", "p">>, <<"U", "P">>},
     color : {None}, year : {None}]

RepoCall(op, args, transaction, first, mid, second, last) ==
    /\ db' = StoreOf(last)
    /\ clock' = last.clock
    /\ repo' = [op |-> op, args |-> args, transaction |-> transaction,
                pre |-> db, first |-> first, mid |-> StoreOf(mid),
                second |-> second]
    /\ UNCHANGED <<today, pc, request, pre, dispatched, svc, calls, outcome,
                   inner, reqs, api, crud, http>>

\* get_or_create_client(name, phone), twice.
RepoGetOrCreateClient ==
    /\ Cardinality(db.clients) <= MaxRepoRows
    /\ \E name \in RepoNames, phone \in Phones, order \in ScanOrders,
          transaction \in Transactions :
         LET r1 == FirstOf(GetOrCreateClient(OpenSession(db, clock), name, phone),
                           "client", order)
             r2 == FirstOf(GetOrCreateClient(SecondSession(r1.sess, transaction),
                                             name, phone),
                           "client", order)
         IN  RepoCall("get_or_create_client", [name |-> name, phone |-> phone],
                      transaction, r1.client, r1.sess, r2.client, r2.sess)

\* get_or_create_car(client_id, brand, model, color, year), twice.
RepoGetOrCreateCar ==
    /\ Cardinality(db.cars) < MaxRepoRows
    /\ \E owner \in db.clients, car \in RepoCars, order \in ScanOrders,
          transaction \in Transactions :
         LET r1 == FirstOf(GetOrCreateCar(OpenSession(db, clock), owner.id, car.brand,
                                          car.model, car.color, car.year),
                           "car", order)
             r2 == FirstOf(GetOrCreateCar(SecondSession(r1.sess, transaction),
                                          owner.id, car.brand, car.model,
                                          car.color, car.year),
                           "car", order)
         IN  RepoCall("get_or_create_car",
                      [client_id |-> owner.id, brand |-> car.brand,
                       model |-> car.model, color |-> car.color, year |-> car.year],
                      transaction, r1.car, r1.sess, r2.car, r2.sess)

RepoNext == RepoGetOrCreateClient \/ RepoGetOrCreateCar

RepoSpec == Init /\ [][RepoNext]_vars

\* The client's cars whose model is the given one up to case and whose
\* brand, color and year equal those the call supplies.
OwnedAlike(store, args) ==
    {c \in store.cars :
        /\ c.client_id = args.client_id
        /\ Lower(c.model) = Lower(args.model)
        /\ args.brand # None => c.brand = args.brand
        /\ args.color # None => c.color = args.color
        /\ args.year # None => c.year = args.year}

\* C22: get_or_create_car creates no Car when the client owns a car whose
\* model matches and whose fields equal every field the call supplies,
\* whatever the car holds in the fields left unspecified; it creates a Car
\* only when the client owns no such car; the car returned is a row of the
\* store and belongs to the given client.
C22_MatchOnSuppliedFieldsOnly ==
    repo.op = "get_or_create_car" =>
      /\ OwnedAlike(repo.pre, repo.args) # {} => repo.mid.cars = repo.pre.cars
      /\ repo.first \notin repo.pre.cars =>
           /\ OwnedAlike(repo.pre, repo.args) = {}
           /\ repo.mid.cars = repo.pre.cars \cup {repo.first}
      /\ repo.first \in repo.mid.cars
      /\ repo.first.client_id = repo.args.client_id

C22_Witness ==
    /\ repo.op = "get_or_create_car"
    /\ repo.args.brand = None
    /\ repo.first \in repo.pre.cars
    /\ repo.first.brand # None
    /\ repo.first.model # repo.args.model
    /\ repo.mid.cars = repo.pre.cars

\* The rows of the table the method works on.
RepoTable(store) ==
    IF repo.op = "get_or_create_client" THEN store.clients ELSE store.cars

\* C26: get_or_create_client and get_or_create_car called twice in a row
\* with the same arguments return the same entity both times, create at
\* most one row in total, and the second call creates none.
C26_GetOrCreateIdempotent ==
    repo.op # "none" =>
      /\ repo.second = repo.first
      /\ RepoTable(db) = RepoTable(repo.mid)
      /\ RepoTable(repo.mid) \in {RepoTable(repo.pre),
                                  RepoTable(repo.pre) \cup {repo.first}}
      /\ Cardinality(RepoTable(db)) <= Cardinality(RepoTable(repo.pre)) + 1

C26_Witness ==
    /\ repo.op = "get_or_create_car"
    /\ repo.transaction = "next"
    /\ repo.pre.cars # {}
    /\ repo.first \notin repo.pre.cars
    /\ repo.second = repo.first
    /\ db.cars = repo.pre.cars \cup {repo.first}

\* x occurs in s, letter case aside.
IsSubstringNoCase(x, s) ==
    /\ s # None
    /\ \E i \in 1..(Len(s) + 1) :
         /\ i + Len(x) - 1 <= Len(s)
         /\ Lower(SubSeq(s, i, i + Len(x) - 1)) = Lower(x)

Supplied(params, k) == k \in DOMAIN params /\ params[k] \notin {None, <<>>}

\* The active records of the store each supplied parameter occurs in: the
\* owning client's name, the car's brand and model, the description.
Sought(store, params) ==
    {r \in store.records :
       /\ r.active
       /\ \E car \in store.cars :
            /\ car.id = r.car_id
            /\ Supplied(params, "car_brand") =>
                 IsSubstringNoCase(params.car_brand, car.brand)
            /\ Supplied(params, "car_model") =>
                 IsSubstringNoCase(params.car_model, car.model)
            /\ Supplied(params, "client_name") =>
                 \E cl \in store.clients :
                   /\ cl.id = car.client_id
                   /\ IsSubstringNoCase(params.client_name, cl.name)
       /\ Supplied(params, "service_description") =>
            IsSubstringNoCase(params.service_description, r.servico)}

\* C23: the repository search returns exactly the active records that every
\* supplied parameter occurs in (letter case aside), each once, the most
\* recently created first.
C23_SearchReturnsExactMatches ==
    (SearchRan /\ ~AllBlank(SearchArgs))
    => /\ svc.kind = "returned"
       /\ LET rows == RowsOf(svc.result)
          IN  /\ {rows[i] : i \in 1..Len(rows)} = Sought(pre, SearchArgs)
              /\ Len(rows) = Cardinality(Sought(pre, SearchArgs))
              /\ \A i \in 1..Len(rows), j \in 1..Len(rows) :
                   i < j => rows[i].created_at > rows[j].created_at

\* A search or a list request was handled.
ReadOnlyRan == pc = "done" /\ dispatched \in {"search", "list"}

\* The session calls that write.
WriteCalls == {"add:Client", "add:Car", "add:ServiceRecord", "flush", "commit"}

\* C24: handling a search or list_active_services intent, whether it
\* succeeds, finds nothing or is rejected, leaves every Client, Car and
\* ServiceRecord row as it was and makes no add, flush or commit.
C24_SearchAndListReadOnly ==
    ReadOnlyRan =>
      /\ db = pre
      /\ \A i \in 1..Len(calls) : calls[i] \notin WriteCalls

C24_Witness ==
    /\ ReadOnlyRan
    /\ dispatched = "search"
    /\ calls = <<"execute:ServiceRecord">>
    /\ pre.records # {}
    /\ db = pre

\* The records of the store that repeat the car, description and date of r.
Twins(store, r) ==
    {o \in store.records : /\ o.car_id = r.car_id
                           /\ o.servico = r.servico
                           /\ o.date = r.date}

\* C25: every successful create_service_record adds exactly one new
\* ServiceRecord, also when the store already holds a record of the same
\* car, description and date, and leaves every Client, Car and
\* ServiceRecord row that existed before it as it was.
C25_CreateAddsOneRecordOnly ==
    CreateSucceeded =>
      LET new == svc.result.service_record
      IN  /\ new \notin pre.records
          /\ \A r \in pre.records : r.id # new.id
          /\ db.records = pre.records \cup {new}
          /\ Cardinality(db.records) = Cardinality(pre.records) + 1
          /\ pre.clients \subseteq db.clients
          /\ pre.cars \subseteq db.cars
          /\ new.car_id = svc.result.car.id

C25_Witness ==
    /\ CreateSucceeded
    /\ svc.result.car \in pre.cars
    /\ Twins(pre, svc.result.service_record) # {}
    /\ Cardinality(Twins(db, svc.result.service_record)) = 2
    /\ Cardinality(db.cars) = 1

\* C27: a chat create request that ends in an error outcome leaves none of
\* its rows in the committed store: the store is as it was before the
\* request.
C27_FailedCreateLeavesNoRows ==
    (pc = "done" /\ dispatched = "create" /\ outcome.kind = "HTTPException")
    => db = pre

\* C28: after chat creates handled one after another from the empty store,
\* no two Client rows have the same name up to case and the same phone,
\* and no two Cars of one client have the same model, brand, color and year.
C28_SequentialCreatesNoDuplicates ==
    /\ \A a \in db.clients, b \in db.clients :
         (Lower(a.name) = Lower(b.name) /\ a.phone = b.phone) => a = b
    /\ \A a \in db.cars, b \in db.cars :
         (/\ a.client_id = b.client_id
          /\ a.model = b.model
          /\ a.brand = b.brand
          /\ a.color = b.color
          /\ a.year = b.year) => a = b

C28_Witness ==
    /\ CreateSucceeded
    /\ Cardinality(db.clients) = 2
    /\ Cardinality(db.records) = 2
    /\ \A a \in db.clients, b \in db.clients : Lower(a.name) = Lower(b.name)

\* create_service_record of the request returned its success result: the
\* three refreshes after the commit were made.
ReturnedSuccess(q) == \E i \in 1..Len(q.calls) : q.calls[i] = "refresh:ServiceRecord"

\* Every committed record points to a committed car, and that car to a
\* committed client.
Consistent(store) ==
    /\ \A rec \in store.records : \E car \in store.cars : car.id = rec.car_id
    /\ \A car \in store.cars : \E cl \in store.clients : cl.id = car.client_id

\* No request is being handled.
Quiet == \A r \in Rids : reqs[r].pc \in {"idle", "closed"}

\* C29: under any interleaving of concurrent create requests the committed
\* store is referentially consistent, and once the requests have ended the
\* number of committed ServiceRecords is the number of create requests
\* whose create_service_record returned success.
C29_ConcurrentCreatesCounted ==
    /\ Consistent(db)
    /\ Quiet =>
         Cardinality(db.records)
           = Cardinality({r \in Rids : ReturnedSuccess(reqs[r])})

(***************************************************************************)
(* The chat HTTP entry points: chat_api of src/src/routers/chat.py, which   *)
(* calls the reconciliation service, and chat_api of src/routers/chat.py,  *)
(* which runs the statements itself.  Both answer with the router's        *)
(* ChatResponse, or raise.                                                 *)
(***************************************************************************)
RouterChatResponse(success, client_data, car_data, service_data, message, service_records) ==
    [kind |-> "ChatResponse", success |-> success, client_data |-> client_data,
     car_data |-> car_data, service_data |-> service_data, message |-> message,
     service_records |-> service_records]

\* ClientDataResponse.model_validate / CarDataResponse.model_validate: name,
\* brand and model are required str fields, None fails the validation.
ResponseInvalid(client, car) ==
    client.name = None \/ car.brand = None \/ car.model = None

ValidationError ==
    PyException("ValidationError", "1 validation error: Input should be a valid string")

\* The ChatResponse of a successful create (both routers build the same).
CreatedResponse(client, car, record) ==
    IF ResponseInvalid(client, car) THEN ValidationError
    ELSE RouterChatResponse(
             TRUE,
             [id |-> client.id, name |-> client.name, phone |-> client.phone],
             [id |-> car.id, brand |-> car.brand, model |-> car.model,
              color |-> car.color, year |-> car.year, client_id |-> car.client_id],
             ModelValidate(record),
             Msg("Servico registrado com sucesso para",
                 <<client.name, car.brand, car.model>>),
             None)

\* The if/elif/else on the intent in both chat_api functions.
ChatApiBranch(intent) ==
    IF intent = "create_service" THEN "create"
    ELSE IF intent = "search_service" THEN "search"
    ELSE "unknown"

MissingData == HTTPException(400, Msg("Dados ausentes para criacao de servico.", <<>>))

MissingSearchParams == HTTPException(400, Msg("Parametros de pesquisa ausentes.", <<>>))

UnknownIntent(intent) == HTTPException(400, Msg("Intencao desconhecida:", <<intent>>))

\* src/src/routers/chat.py, the create_service branch.
ChatApiCreate(sess, data, now_date) ==
    IF DOMAIN data = {}
    THEN {Handled(sess, NoService, MissingData)}
    ELSE {IF ~run.svc.result.success
          THEN Handled(run.sess, run.svc,
                       HTTPException(StatusCodeOf(run.svc.result),
                                     run.svc.result.message))
          ELSE Handled(run.sess, run.svc,
                       CreatedResponse(run.svc.result.client, run.svc.result.car,
                                       run.svc.result.service_record)) :
          run \in CreateServiceRecord(sess, data, now_date)}

\* src/src/routers/chat.py, the search_service branch.
ChatApiSearch(sess, search_params) ==
    IF DOMAIN search_params = {}
    THEN Handled(sess, NoService, MissingSearchParams)
    ELSE LET run == SearchServiceRecords(sess, search_params)
         IN  IF run.svc.kind = "raised"
             THEN Handled(run.sess, run.svc, run.svc.exc)
             ELSE IF ~run.svc.result.success
             THEN Handled(run.sess, run.svc,
                          HTTPException(StatusCodeOf(run.svc.result),
                                        run.svc.result.message))
             ELSE Handled(run.sess, run.svc,
                          RouterChatResponse(TRUE, None, None, None,
                                             run.svc.result.message,
                                             ValidateAll(RowsOf(run.svc.result))))

\* str(e) of what the try block raised: a Starlette HTTPException prints as
\* "<status_code>: <detail>".
StrOf(e) ==
    IF e.kind = "HTTPException" THEN <<e.status_code, e.detail>> ELSE <<e.text>>

Unexpected(e) == HTTPException(500, Msg("Ocorreu um erro inesperado:", StrOf(e)))

\* src/src/routers/chat.py: except HTTPException: raise, then
\* except Exception as e: raise HTTPException(500).
ChatApiExcept(h) ==
    IF h.outcome.kind = "Exception"
    THEN [h EXCEPT !.outcome = Unexpected(h.outcome)] ELSE h

\* src/routers/chat.py: except Exception as e alone.  HTTPException is an
\* Exception, so what the try block raised itself is caught as well.
LegacyExcept(h) ==
    IF h.outcome.kind \in {"Exception", "HTTPException"}
    THEN [h EXCEPT !.outcome = Unexpected(h.outcome)] ELSE h

\* The try block of chat_api in src/src/routers/chat.py.
ChatApiTry(sess, gemini_response, now_date) ==
    LET branch == ChatApiBranch(gemini_response.intent)
        runs == CASE branch = "create" ->
                       ChatApiCreate(sess, gemini_response.data, now_date)
                  [] branch = "search" ->
                       {ChatApiSearch(sess, gemini_response.search_params)}
                  [] OTHER ->
                       {Handled(sess, NoService, UnknownIntent(gemini_response.intent))}
    IN  {[run |-> ChatApiExcept(h), dispatched |-> branch, inner |-> h.outcome] :
           h \in runs}

\* The four fields the inline create of src/routers/chat.py requires.
LegacyDataValid(data) ==
    /\ Truthy(Get(data, "client_name"))
    /\ Truthy(Get(data, "car_brand"))
    /\ Truthy(Get(data, "car_model"))
    /\ Truthy(Get(data, "service_description"))

LegacyCreateGuidance ==
    Msg("Por favor, forneca nome do cliente, marca, modelo do carro e descricao do servico.", <<>>)

\* Lines 153-182 of src/routers/chat.py: the record is added without a
\* flush, the commit writes it, the three rows are refreshed.
LegacyRecordAndCommit(sess, data, client, car, now_date) ==
    LET new == [id |-> NextId(sess.records), car_id |-> car.id,
                servico |-> Get(data, "service_description"),
                date |-> DateOrToday(ParseServiceDate(Get(data, "service_date")),
                                     now_date),
                valor |-> Get(data, "service_valor"),
                observations |-> Get(data, "service_observations"),
                created_at |-> sess.clock + 1, active |-> TRUE]
        s1 == Commit([sess EXCEPT !.records = @ \cup {new}, !.clock = @ + 1,
                                  !.calls = Append(@, "add:ServiceRecord")])
        s2 == [s1 EXCEPT !.calls = @ \o <<"refresh:Client", "refresh:Car",
                                          "refresh:ServiceRecord">>]
    IN  Handled(s2, NoService, CreatedResponse(client, car, new))

\* src/routers/chat.py, the create_service branch: the same two lookups as
\* the repositories make, inline (brand is required, so it always filters).
LegacyCreate(sess, data, now_date) ==
    IF DOMAIN data = {}
    THEN {Handled(sess, NoService, MissingData)}
    ELSE IF ~LegacyDataValid(data)
    THEN {Handled(sess, NoService,
                  RouterChatResponse(FALSE, None, None, None, LegacyCreateGuidance,
                                     None))}
    ELSE UNION {
           {LegacyRecordAndCommit(gc.sess, data, gcl.client, gc.car, now_date) :
              gc \in GetOrCreateCar(gcl.sess, gcl.client.id, Get(data, "car_brand"),
                                    Get(data, "car_model"), Get(data, "car_color"),
                                    Get(data, "car_year"))} :
           gcl \in GetOrCreateClient(sess, Get(data, "client_name"),
                                     Get(data, "client_phone"))}

\* One block of the message the inline search of src/routers/chat.py builds.
LegacyDetail(store, r) ==
    LET car == CarOf(store, r)
        OrNA(v) == IF Truthy(v) THEN v ELSE <<"N/A">>
    IN  [client |-> OwnerName(store, car, <<"N/A">>),
         brand |-> car.brand, model |-> car.model, color |-> OrNA(car.color),
         year |-> OrNA(car.year), servico |-> r.servico, date |-> r.date,
         valor |-> OrNA(r.valor)]

\* src/routers/chat.py, the search_service branch: the statement has no
\* filter on active, and result.scalars().all() is not awaited.
LegacySearch(sess, search_params) ==
    IF DOMAIN search_params = {}
    THEN Handled(sess, NoService, MissingSearchParams)
    ELSE IF SearchParamsEmpty(search_params)
    THEN Handled(sess, NoService,
                 RouterChatResponse(FALSE, None, None, None, SearchGuidance, None))
    ELSE LET s1 == Log(sess, "execute:ServiceRecord")
             rows == SearchQuery(StoreOf(sess), Get(search_params, "client_name"),
                                 Get(search_params, "car_brand"),
                                 Get(search_params, "car_model"),
                                 Get(search_params, "service_description"), FALSE)
         IN  IF rows # <<>>
             THEN Handled(s1, NoService,
                          RouterChatResponse(
                              TRUE, None, None, None,
                              Msg("Servicos encontrados:",
                                  [i \in 1..Len(rows) |->
                                     LegacyDetail(StoreOf(sess), rows[i])]),
                              ValidateAll(rows)))
             ELSE Handled(s1, NoService,
                          RouterChatResponse(
                              FALSE, None, None, None,
                              Msg("Nenhum servico encontrado com os criterios fornecidos.", <<>>),
                              None))

\* The try block of chat_api in src/routers/chat.py.
LegacyTry(sess, gemini_response, now_date) ==
    LET branch == ChatApiBranch(gemini_response.intent)
        runs == CASE branch = "create" ->
                       LegacyCreate(sess, gemini_response.data, now_date)
                  [] branch = "search" ->
                       {LegacySearch(sess, gemini_response.search_params)}
                  [] OTHER ->
                       {Handled(sess, NoService, UnknownIntent(gemini_response.intent))}
    IN  {[run |-> LegacyExcept(h), dispatched |-> branch, inner |-> h.outcome] :
           h \in runs}

\* Lines before the try block, the same in both: an empty message is a 400,
\* a classifier error a 500 with the error as detail; neither is caught.
BeforeTry(sess, message, reply, tried) ==
    IF ~Truthy(message)
    THEN {[run |-> Handled(sess, NoService,
                           HTTPException(400, Msg("Mensagem vazia", <<>>))),
           dispatched |-> "none", inner |-> NoOutcome]}
    ELSE IF Truthy(reply.error)
    THEN {[run |-> Handled(sess, NoService,
                           HTTPException(500, Msg(reply.error, <<>>))),
           dispatched |-> "none", inner |-> NoOutcome]}
    ELSE tried

\* What process_user_message returns: (parsed, None) or (None, str(e)).
Classified(gemini_response) == [response |-> gemini_response, error |-> None]

ClassifierFailed == [response |-> None, error |-> <<"q", "u", "o", "t", "a">>]

NoBrand == [BaseData EXCEPT !.car_brand = None]

NoName == [BaseData EXCEPT !.client_name = None]

RouterRequests ==
    {Request(i, d, EmptyDict) :
       i \in {"create_service", "record_service"},
       d \in {EmptyDict, BaseData, NoBrand, NoName}}
    \cup {Request("create_service",
                  [BaseData EXCEPT !.client_name = <<"b", "o">>], EmptyDict)}
    \cup {Request(i, EmptyDict, p) :
            i \in {"search_service", "search"},
            p \in {EmptyDict, SearchParams(None, None, None, None),
                   SearchParams(<<"N">>, None, None, None),
                   SearchParams(None, None, None, <<"x">>)}}
    \cup {Request("list_active_services", EmptyDict, EmptyDict),
          Request("delete_service", BaseData, EmptyDict)}

RouterReplies == {Classified(g) : g \in RouterRequests} \cup {ClassifierFailed}

RouterMessages == {<<>>, Oil}

\* One call of a chat_api, in a session of its own that get_db closes.
HttpCall(entry, message, reply, done) ==
    /\ db' = done.run.sess.committed
    /\ clock' = done.run.sess.clock
    /\ http' = [op |-> "chat_api", entry |-> entry, message |-> message,
                reply |-> reply, pre |-> db, dispatched |-> done.dispatched,
                calls |-> done.run.sess.calls, inner |-> done.inner,
                outcome |-> done.run.outcome]
    /\ UNCHANGED <<today, pc, request, pre, dispatched, svc, calls, outcome,
                   inner, reqs, api, crud, repo>>

\* Creates are taken while the store is below its bound.
RouterRoom(message, reply) ==
    (/\ Truthy(message)
     /\ reply.error = None
     /\ ChatApiBranch(reply.response.intent) = "create")
      => Cardinality(db.records) < MaxRecords

CallChatApi ==
    \E message \in RouterMessages, reply \in RouterReplies :
      /\ RouterRoom(message, reply)
      /\ \E done \in BeforeTry(OpenSession(db, clock), message, reply,
                               IF reply.error = None
                               THEN ChatApiTry(OpenSession(db, clock),
                                               reply.response, today)
                               ELSE {}) :
           HttpCall("src/src/routers/chat.py", message, reply, done)

CallLegacyChatApi ==
    \E message \in RouterMessages, reply \in RouterReplies :
      /\ RouterRoom(message, reply)
      /\ \E done \in BeforeTry(OpenSession(db, clock), message, reply,
                               IF reply.error = None
                               THEN LegacyTry(OpenSession(db, clock),
                                              reply.response, today)
                               ELSE {}) :
           HttpCall("src/routers/chat.py", message, reply, done)

RouterNext == CallChatApi \/ CallLegacyChatApi

RouterSpec == Init /\ [][RouterNext]_vars

\* The request reached the try block of the entry point.
Tried == http.op = "chat_api" /\ http.dispatched # "none"

\* The three validation failures the try block raises itself.
ValidationFailure ==
    /\ Tried
    /\ \/ http.dispatched = "unknown"
       \/ http.dispatched = "create" /\ DOMAIN http.reply.response.data = {}
       \/ http.dispatched = "search" /\ DOMAIN http.reply.response.search_params = {}

\* C21: in both chat HTTP entry points an unknown intent, a missing data
\* sub-payload and missing search parameters reach the caller as HTTP 400,
\* never as a 500 made by the catch-all clause.
C21_ValidationFailureIs400 ==
    ValidationFailure =>
        /\ http.outcome.kind = "HTTPException"
        /\ http.outcome.status_code = 400

\* C30: chat_api of src/src/routers/chat.py takes, for every intent label
\* that handle_intent dispatches to create or to search (record_service
\* among them), the same branch as handle_intent.
C30_ChatApiDispatchesAsHandleIntent ==
    (/\ Tried
     /\ http.entry = "src/src/routers/chat.py"
     /\ Dispatch(http.reply.response.intent) \in {"create", "search"})
      => http.dispatched = Dispatch(http.reply.response.intent)

============================================================================
